---- MODULE Spec2Model ----
(***************************************************************************)
(* Model of the AgroStack AI price engine (src/AiPriceEngine):             *)
(*   - engine.py: SeasonalityModel, ShockModel, HybridPredictor and the    *)
(*     AgronomicAdvisoryLayer;                                             *)
(*   - federatedlearning.py: FederatedPricePredictor.                      *)
(*                                                                         *)
(* Numbers.  Python floats are modelled as exact rationals.  A price is an *)
(* integer number of mills (1/1000 of a currency unit), a price rounded to *)
(* two decimals is an integer number of cents, a weight is a number of     *)
(* tenths and an advisory bias a number of hundredths.  round(x, 2) is     *)
(* round-half-even on the exact value.                                     *)
(*                                                                         *)
(* Optional values.  None is the empty sequence and a present value v is   *)
(* the one-element sequence <<v>>.                                         *)
(***************************************************************************)
EXTENDS Integers, Sequences, FiniteSets, TLC

VARIABLES
    data,          \* HybridPredictor.data: None or the series of y values
    hp_trained,    \* HybridPredictor._trained
    seasonality,   \* SeasonalityModel: [trained, last_known_price]
    shock,         \* ShockModel: [built, trained, scaler_fitted, last_known_price]
    result,        \* what the last call on the predictor did and returned
    fa,            \* the last direct call of federated_average and its outcome
    rng_draws,     \* draws from numpy's global generator since it was seeded
    fed_calls,     \* calls made on the FederatedPricePredictor
    fed_call,      \* the arguments of the call in progress or last made
    fed_pc,        \* where that call is
    fed_log,       \* the pipeline stages the call has entered, in order
    fed_run,       \* the locals of run_federated_pipeline
    fed_result,    \* what the call returned or raised
    fed_generated, \* the DataFrames generate_synthetic_data has returned so far
    adv,           \* the arguments and the result of a call of evaluate
    app,           \* the application: its startup and the requests in progress
    fc,            \* the last call made directly on a sub-model
    fl,            \* a call of forecast_next_30_days, iteration by iteration
    xai            \* the arguments and the result of a call of the explainer

hybridVars == <<data, hp_trained, seasonality, shock, result>>

fedVars ==
    <<rng_draws, fed_calls, fed_call, fed_pc, fed_log, fed_run, fed_result,
      fed_generated>>

vars == <<hybridVars, fa, fedVars, adv, app, fc, fl, xai>>

----------------------------------------------------------------------------
(* Optional values and arithmetic helpers *)

None == <<>>

Some(v) == <<v>>

IsNone(o) == o = <<>>

Get(o) == o[1]

Abs(x) == IF x < 0 THEN -x ELSE x

Last(s) == s[Len(s)]

\* s[-n:] of Python: the last n elements, or all of s when it is shorter.
LastN(s, n) == IF Len(s) <= n THEN s ELSE SubSeq(s, Len(s) - n + 1, Len(s))

\* Round n/d (d > 0) to the nearest integer, ties to the even one.
RoundHalfEven(n, d) ==
    LET q == n \div d
        r == n % d
    IN  IF 2 * r < d THEN q
        ELSE IF 2 * r > d THEN q + 1
        ELSE IF q % 2 = 0 THEN q ELSE q + 1

\* A rational number num/den with den > 0.
Frac(n, d) == [num |-> n, den |-> d]

RECURSIVE GCD(_, _)
GCD(a, b) == IF b = 0 THEN a ELSE GCD(b, a % b)

\* n/d in lowest terms.
Norm(n, d) ==
    LET g == GCD(Abs(n), d)
    IN  Frac(n \div g, d \div g)

FracMul(a, b) == Norm(a.num * b.num, a.den * b.den)

FracAdd(a, b) == Norm(a.num * b.den + b.num * a.den, a.den * b.den)

FracSub(a, b) == Norm(a.num * b.den - b.num * a.den, a.den * b.den)

FracLess(a, b) == a.num * b.den < b.num * a.den

FracMin(a, b) == IF FracLess(b, a) THEN b ELSE a

FracMax(a, b) == IF FracLess(a, b) THEN b ELSE a

Whole(n) == Frac(n, 1)

\* round(x, 2) of a price given as a rational number of mills: cents.
Round2Mills(f) == RoundHalfEven(f.num, f.den * 10)

----------------------------------------------------------------------------
(* Program constants *)

PROPHET_WEIGHT == 7

LSTM_WEIGHT == 3

\* PROPHET_WEIGHT and LSTM_WEIGHT are tenths: 0.7 and 0.3.
WeightScale == 10

\* ShockModel(window=30)
SHOCK_WINDOW == 30

\* A bias of 1.0, the default of predict_hybrid's advisory_bias, in hundredths.
DEFAULT_BIAS == 100

BiasScale == 100

----------------------------------------------------------------------------
(* Bounds and input sets *)

\* Training series are at most SHOCK_WINDOW + ExtraLen prices long.
ExtraLen == 1

\* The price every element of an input series but the last one has (mills).
Filler == 1000

\* The last prices of the input series (mills); 0 is a series ending at 0.
LastPrices == {0, 1000, 1004}

\* The values a sub-model's predict can return (mills).
PredSet == {0, 1004, 1008}

\* Live prices handed to predict_hybrid (mills).
CurrentPrices == {500, 1250}

\* Advisory biases handed to predict_hybrid (hundredths); None: not supplied.
BiasInputs == {None, Some(105), Some(90)}

SeriesOf(n, last) == [i \in 1..n |-> IF i = n THEN last ELSE Filler]

SeriesLens == {1} \cup (SHOCK_WINDOW..(SHOCK_WINDOW + ExtraLen))

\* The series train is called with: the empty one, and chronologically
\* ordered series of each length ending at each last price.
SeriesInputs == {<<>>} \cup {SeriesOf(n, l) : n \in SeriesLens, l \in LastPrices}

\* What a sub-model's external predict call does: None when it raises, else
\* the value it returns.
PredOutcomes == {None} \cup {Some(v) : v \in PredSet}

\* What the sub-models' predict calls give under get_analytics: the values of
\* PredSet and values 15 %, just over 15 % and 250 % away from one another.
AnalyticsPredSet == PredSet \cup {1000, 1150, 3500, 25000, 28751}

AnalyticsOutcomes == {None} \cup {Some(v) : v \in AnalyticsPredSet}

----------------------------------------------------------------------------
(* data_manager.py helpers *)

\* prepare_prophet_df keeps the rows whose ds and y parse and orders them by
\* ds.  A series here is the y column of rows that all parse, already in ds
\* order, so the rows come back as they are.
prepare_prophet_df(df) == df

\* create_sequences raises ValueError unless the data is longer than the
\* window.
create_sequences_raises(prices, window) == Len(prices) <= window

\* generate_synthetic_data: a seeded series of 3 * 365 days with prices
\* clipped to at least 500; what train uses of it is that it is longer than
\* the window and ends at a positive price.
SyntheticSeries == {s \in SeriesInputs : Len(s) > SHOCK_WINDOW /\ Last(s) > 0}

----------------------------------------------------------------------------
(* SeasonalityModel *)

SeasonalityInit == [trained |-> FALSE, last_known_price |-> None]

\* SeasonalityModel.train; fitOk: whether Prophet.fit returns.
\* [sm: the model afterwards, raised: whether train raised]
SeasonalityTrain(sm, df0, fitOk) ==
    LET df == prepare_prophet_df(df0)
    IN  IF df = <<>>
        THEN [sm |-> sm, raised |-> TRUE]
        ELSE LET sm1 == [sm EXCEPT !.last_known_price = Some(Last(df))]
             IN  IF ~fitOk
                 THEN [sm |-> sm1, raised |-> TRUE]
                 ELSE [sm |-> [sm1 EXCEPT !.trained = TRUE], raised |-> FALSE]

\* SeasonalityModel.predict; out: what Prophet's predict does.
\* None when predict raises, else the last yhat.
SeasonalityPredict(sm, out) == IF ~sm.trained THEN None ELSE out

\* SeasonalityModel.get_trend_value.
\* [raised: an exception leaves get_trend_value, predict_raised, value]
GetTrendValue(sm, out) ==
    LET p == SeasonalityPredict(sm, out)
    IN  IF ~IsNone(p)
        THEN [raised |-> FALSE, predict_raised |-> FALSE, value |-> Get(p)]
        ELSE IF ~IsNone(sm.last_known_price)
        THEN [raised |-> FALSE, predict_raised |-> TRUE,
              value |-> Get(sm.last_known_price)]
        ELSE [raised |-> TRUE, predict_raised |-> TRUE, value |-> 0]

----------------------------------------------------------------------------
(* ShockModel *)

ShockInit ==
    [built |-> FALSE, trained |-> FALSE, scaler_fitted |-> FALSE,
     last_known_price |-> None]

\* ShockModel.train; fitOk: whether the Keras fit returns.
ShockTrain(sh, prices, fitOk) ==
    LET sh1 == [sh EXCEPT !.built = TRUE]
    IN  IF prices = <<>>
        THEN [sh |-> sh1, raised |-> TRUE]          \* prices[-1]: IndexError
        ELSE LET sh2 == [sh1 EXCEPT !.last_known_price = Some(Last(prices)),
                                    !.scaler_fitted = TRUE]
             IN  IF create_sequences_raises(prices, SHOCK_WINDOW) \/ ~fitOk
                 THEN [sh |-> sh2, raised |-> TRUE]
                 ELSE [sh |-> [sh2 EXCEPT !.trained = TRUE], raised |-> FALSE]

\* ShockModel.predict; out: what the Keras predict does.  The reshape to
\* (1, window, 1) raises unless exactly window prices are given.
ShockPredict(sh, recent, out) ==
    IF ~sh.trained \/ ~sh.built THEN None
    ELSE IF ~sh.scaler_fitted THEN None
    ELSE IF Len(recent) # SHOCK_WINDOW THEN None
    ELSE out

\* ShockModel.get_correction.
GetCorrection(sh, recent, out) ==
    LET p == ShockPredict(sh, recent, out)
    IN  IF ~IsNone(p)
        THEN [raised |-> FALSE, predict_raised |-> FALSE, value |-> Get(p)]
        ELSE IF ~IsNone(sh.last_known_price)
        THEN [raised |-> FALSE, predict_raised |-> TRUE,
              value |-> Get(sh.last_known_price)]
        ELSE [raised |-> TRUE, predict_raised |-> TRUE, value |-> 0]

----------------------------------------------------------------------------
(* HybridPredictor *)

PredictOps == {"get_prediction", "predict_hybrid", "get_analytics"}

\* What a call on the predictor did: the operation, how it ended ("ok" or
\* the exception that left it), the call's locals and the returned fields.
NoResult ==
    [op |-> "none", outcome |-> "ok",
     seasonal_raised |-> FALSE, shock_raised |-> FALSE,
     last_known |-> 0, prophet_trend |-> 0, lstm_correction |-> 0,
     price |-> 0, prophet_weight |-> 0, lstm_weight |-> 0,
     current_price |-> 0, bias |-> 0,
     prophet_mult |-> Whole(0), lstm_mult |-> Whole(0),
     deviation_pct |-> Whole(0), shock_alert |-> FALSE,
     confidence |-> Whole(0),
     deviation_percent |-> 0, confidence_score |-> 0,
     shock_factor |-> 0, seasonal_contribution |-> 0]

Raised(op, exc) == [NoResult EXCEPT !.op = op, !.outcome = exc]

WeightOf(w) == Frac(w, WeightScale)

\* HybridPrice with each sub-model value rounded to cents before the fusion.
HybridPriceRoundedInputs(prophet_trend, lstm_correction) ==
    Round2Mills(FracAdd(FracMul(Whole(10 * Round2Mills(Whole(prophet_trend))),
                                WeightOf(PROPHET_WEIGHT)),
                        FracMul(Whole(10 * Round2Mills(Whole(lstm_correction))),
                                WeightOf(LSTM_WEIGHT))))

\* round(prophet_trend * PROPHET_WEIGHT + lstm_correction * LSTM_WEIGHT, 2),
\* in cents.
HybridPrice(prophet_trend, lstm_correction) ==
    Round2Mills(FracAdd(FracMul(Whole(prophet_trend), WeightOf(PROPHET_WEIGHT)),
                        FracMul(Whole(lstm_correction), WeightOf(LSTM_WEIGHT))))

\* prophet_mult / lstm_mult of predict_hybrid.
Multiplier(value, last_known) ==
    IF last_known > 0 THEN Norm(value, last_known) ELSE Whole(1)

\* BasePredicted with the two weights exchanged.
BasePredictedSwapped(current_price, prophet_mult, lstm_mult) ==
    FracMul(Whole(current_price),
            FracAdd(FracMul(prophet_mult, WeightOf(LSTM_WEIGHT)),
                    FracMul(lstm_mult, WeightOf(PROPHET_WEIGHT))))

\* current_price * (prophet_mult * PROPHET_WEIGHT + lstm_mult * LSTM_WEIGHT)
BasePredicted(current_price, prophet_mult, lstm_mult) ==
    FracMul(Whole(current_price),
            FracAdd(FracMul(prophet_mult, WeightOf(PROPHET_WEIGHT)),
                    FracMul(lstm_mult, WeightOf(LSTM_WEIGHT))))

\* round(base_predicted * advisory_bias, 2), in cents.
PredictedPrice(base_predicted, advisory_bias) ==
    Round2Mills(FracMul(base_predicted, Frac(advisory_bias, BiasScale)))

\* The part get_prediction, predict_hybrid and get_analytics share: the
\* trained check, last_known and the two sub-model values with their
\* fallback.  sOut, kOut: what the sub-models' external predict calls do.
SubModelValues(op, sOut, kOut) ==
    IF ~hp_trained \/ IsNone(data)
    THEN Raised(op, "RuntimeError")
    ELSE IF Get(data) = <<>>
    THEN Raised(op, "IndexError")       \* self.data["y"].iloc[-1]
    ELSE
      LET last_known == Last(Get(data))
          t == GetTrendValue(seasonality, sOut)
          prophet_trend == IF t.raised THEN last_known ELSE t.value
          recent == LastN(Get(data), SHOCK_WINDOW)
          c == GetCorrection(shock, recent, kOut)
          lstm_correction == IF c.raised THEN last_known ELSE c.value
      IN  [NoResult EXCEPT !.op = op,
                           !.seasonal_raised = t.predict_raised,
                           !.shock_raised = c.predict_raised,
                           !.last_known = last_known,
                           !.prophet_trend = prophet_trend,
                           !.lstm_correction = lstm_correction]

\* HybridPredictor.train(df): dfOpt is the argument, syn the series
\* generate_synthetic_data gives when it is None, pFit and kFit whether the
\* Prophet and the Keras fit return.
Train(dfOpt, syn, pFit, kFit) ==
    LET df == IF IsNone(dfOpt) THEN syn ELSE Get(dfOpt)
        st == SeasonalityTrain(seasonality, prepare_prophet_df(df), pFit)
        kt == ShockTrain(shock, df, kFit)
    IN  /\ data' = Some(df)
        /\ seasonality' = st.sm
        /\ IF st.raised
           THEN /\ UNCHANGED <<shock, hp_trained>>
                /\ result' = Raised("train", "seasonality.train")
           ELSE /\ shock' = kt.sh
                /\ IF kt.raised
                   THEN /\ UNCHANGED hp_trained
                        /\ result' = Raised("train", "shock.train")
                   ELSE /\ hp_trained' = TRUE
                        /\ result' = [NoResult EXCEPT !.op = "train"]

\* round(x, 4) of the quotient n / d, in ten-thousandths
Round4(n, d) == RoundHalfEven(n * 10000, d)

ShockFactorOverShock(prophet_price, lstm_price) ==
    IF lstm_price # 0
    THEN Round4(Abs(lstm_price - prophet_price), Abs(lstm_price))
    ELSE 0

\* shock_factor of _generate_xai_attribution, in ten-thousandths
ShockFactor(prophet_price, lstm_price) ==
    IF prophet_price # 0
    THEN Round4(Abs(lstm_price - prophet_price), Abs(prophet_price))
    ELSE 0

\* seasonal_contribution of _generate_xai_attribution, in ten-thousandths
SeasonalContribution(shock_factor) == Round4(10000 - shock_factor, 10000)

\* HybridPredictor.get_prediction
GetPrediction(sOut, kOut) ==
    LET r == SubModelValues("get_prediction", sOut, kOut)
    IN  /\ result' =
              IF r.outcome # "ok" THEN r
              ELSE [r EXCEPT
                      !.price = HybridPrice(r.prophet_trend, r.lstm_correction),
                      !.prophet_weight = PROPHET_WEIGHT,
                      !.lstm_weight = LSTM_WEIGHT,
                      !.shock_factor =
                          ShockFactor(r.prophet_trend, r.lstm_correction),
                      !.seasonal_contribution =
                          SeasonalContribution(
                              ShockFactor(r.prophet_trend, r.lstm_correction))]
        /\ UNCHANGED <<data, hp_trained, seasonality, shock>>

\* HybridPredictor.predict_hybrid
PredictHybrid(current_price, biasOpt, sOut, kOut) ==
    LET r == SubModelValues("predict_hybrid", sOut, kOut)
        advisory_bias == IF IsNone(biasOpt) THEN DEFAULT_BIAS ELSE Get(biasOpt)
        prophet_mult == Multiplier(r.prophet_trend, r.last_known)
        lstm_mult == Multiplier(r.lstm_correction, r.last_known)
        base_predicted == BasePredicted(current_price, prophet_mult, lstm_mult)
    IN  /\ result' =
              IF r.outcome # "ok" THEN r
              ELSE [r EXCEPT
                      !.price = PredictedPrice(base_predicted, advisory_bias),
                      !.current_price = current_price,
                      !.bias = advisory_bias,
                      !.prophet_mult = prophet_mult,
                      !.lstm_mult = lstm_mult,
                      !.prophet_weight = PROPHET_WEIGHT,
                      !.lstm_weight = LSTM_WEIGHT,
                      !.shock_factor =
                          ShockFactor(r.prophet_trend, r.lstm_correction),
                      !.seasonal_contribution =
                          SeasonalContribution(
                              ShockFactor(r.prophet_trend, r.lstm_correction))]
        /\ UNCHANGED <<data, hp_trained, seasonality, shock>>

\* deviation_pct of get_analytics
DeviationPct(prophet_trend, lstm_correction) ==
    IF prophet_trend # 0
    THEN Norm(Abs(lstm_correction - prophet_trend) * 100, Abs(prophet_trend))
    ELSE Whole(0)

ShockAlertInclusive(deviation_pct) == ~FracLess(deviation_pct, Whole(15))

\* shock_alert of get_analytics
ShockAlert(deviation_pct) == FracLess(Whole(15), deviation_pct)

ConfidenceWithoutFloor(deviation_pct) ==
    FracMin(Whole(100), FracSub(Whole(100), deviation_pct))

\* confidence of get_analytics
Confidence(deviation_pct) ==
    FracMax(Whole(0), FracMin(Whole(100), FracSub(Whole(100), deviation_pct)))

\* round(x, 2) of a percentage, in hundredths of a percent
Round2Pct(f) == RoundHalfEven(f.num * 100, f.den)

\* HybridPredictor.get_analytics
GetAnalytics(sOut, kOut) ==
    LET r == SubModelValues("get_analytics", sOut, kOut)
        deviation_pct == DeviationPct(r.prophet_trend, r.lstm_correction)
    IN  /\ result' =
              IF r.outcome # "ok" THEN r
              ELSE [r EXCEPT
                      !.deviation_pct = deviation_pct,
                      !.shock_alert = ShockAlert(deviation_pct),
                      !.confidence = Confidence(deviation_pct),
                      !.confidence_score = Round2Pct(Confidence(deviation_pct)),
                      !.deviation_percent = Round2Pct(deviation_pct),
                      !.prophet_weight = PROPHET_WEIGHT,
                      !.lstm_weight = LSTM_WEIGHT]
        /\ UNCHANGED <<data, hp_trained, seasonality, shock>>

HybridStart ==
    /\ data = None
    /\ hp_trained = FALSE
    /\ seasonality = SeasonalityInit
    /\ shock = ShockInit
    /\ result = NoResult

HybridStep ==
    \/ \E dfOpt \in {None} \cup {Some(s) : s \in SeriesInputs},
          pFit \in BOOLEAN, kFit \in BOOLEAN :
          \E syn \in IF IsNone(dfOpt) THEN SyntheticSeries ELSE {<<>>} :
             Train(dfOpt, syn, pFit, kFit)
    \/ \E sOut \in PredOutcomes, kOut \in PredOutcomes :
          GetPrediction(sOut, kOut)
    \/ \E current_price \in CurrentPrices, biasOpt \in BiasInputs,
          sOut \in PredOutcomes, kOut \in PredOutcomes :
          PredictHybrid(current_price, biasOpt, sOut, kOut)
    \/ \E sOut \in AnalyticsOutcomes, kOut \in AnalyticsOutcomes :
          GetAnalytics(sOut, kOut)


----------------------------------------------------------------------------
(* Claims about the HybridPredictor, checked under SpecHybrid *)

Returned(ops) == result.op \in ops /\ result.outcome = "ok"

\* C1 (as stated): on a trained predictor, whenever a sub-model's predict
\* raises during get_prediction, predict_hybrid or get_analytics, the call
\* still returns a result, and the value used for the failing sub-model is
\* the last known price, the last y of the training series held in data.
C1_FallbackIsLastKnown ==
    (result.op \in PredictOps /\ hp_trained /\ ~IsNone(data)) =>
        /\ (result.seasonal_raised \/ result.shock_raised) =>
               result.outcome = "ok"
        /\ result.seasonal_raised =>
               result.prophet_trend = Last(Get(data))
        /\ result.shock_raised =>
               result.lstm_correction = Last(Get(data))

\* C2 (as stated): get_prediction and predict_hybrid raise the not-trained
\* error only when neither sub-model has ever completed training.
C2_NotTrainedOnlyIfNeitherTrained ==
    (result.op \in {"get_prediction", "predict_hybrid"}
        /\ (seasonality.trained \/ shock.trained)) =>
        result.outcome # "RuntimeError"

\* C3: every result of get_prediction carries the weights 0.7 and 0.3, which
\* sum to 1.0, and a hybrid price that is seasonal*0.7 + shock*0.3 of the
\* unrounded sub-model values, rounded to 2 decimals (at most half a cent
\* away from the exact value).
C3_AbsoluteFusion ==
    Returned({"get_prediction"}) =>
        /\ result.prophet_weight = 7 /\ result.lstm_weight = 3
        /\ result.prophet_weight + result.lstm_weight = WeightScale
        /\ Abs(result.price * 100
               - (7 * result.prophet_trend + 3 * result.lstm_correction)) <= 50

\* C3 happens: get_prediction returned for two sub-model values whose
\* rounding to cents before the fusion would change the price.
C3_Witness ==
    /\ Returned({"get_prediction"})
    /\ ~result.seasonal_raised /\ ~result.shock_raised
    /\ result.prophet_trend = 1004 /\ result.lstm_correction = 1008

\* C4: every result of predict_hybrid has multipliers seasonal/lastKnown and
\* shock/lastKnown when lastKnown > 0 and 1.0 otherwise, and a predicted
\* price that is liveBase * (seasonal_mult*0.7 + shock_mult*0.3) * bias
\* rounded to 2 decimals, the bias being 1.0 when none was supplied.
C4_LiveRebasing ==
    Returned({"predict_hybrid"}) =>
        LET L == result.last_known
            s == result.prophet_trend
            k == result.lstm_correction
            pm == result.prophet_mult
            lm == result.lstm_mult
        IN  /\ L > 0 => /\ pm.num * L = s * pm.den
                        /\ lm.num * L = k * lm.den
                        \* price is cents; both sides in 1/(1000 * L) mills
                        /\ Abs(result.price * 10 * 1000 * L
                               - result.current_price * (7 * s + 3 * k)
                                 * result.bias) <= 5 * 1000 * L
            /\ L <= 0 => /\ pm.num = pm.den /\ lm.num = lm.den
                         /\ Abs(result.price * 10 * 100
                                - result.current_price * result.bias) <= 5 * 100

\* C4 happens: predict_hybrid returned on a positive last known price with
\* two different sub-model values and a supplied bias other than 1.0.
C4_Witness ==
    /\ Returned({"predict_hybrid"})
    /\ result.last_known > 0
    /\ result.prophet_trend # result.lstm_correction
    /\ result.prophet_trend # result.last_known
    /\ result.bias = 105

----------------------------------------------------------------------------
(* Strings: a string is the sequence of its characters *)

LowerLetters ==
    <<"a", "b", "c", "d", "e", "f", "g", "h", "i", "j", "k", "l", "m",
      "n", "o", "p", "q", "r", "s", "t", "u", "v", "w", "x", "y", "z">>

UpperLetters ==
    <<"A", "B", "C", "D", "E", "F", "G", "H", "I", "J", "K", "L", "M",
      "N", "O", "P", "Q", "R", "S", "T", "U", "V", "W", "X", "Y", "Z">>

Whitespace == {" ", "\t", "\n"}

IndexIn(c, letters) ==
    IF \E i \in 1..Len(letters) : letters[i] = c
    THEN CHOOSE i \in 1..Len(letters) : letters[i] = c
    ELSE 0

IsLetter(c) == IndexIn(c, LowerLetters) # 0 \/ IndexIn(c, UpperLetters) # 0

LowerChar(c) ==
    IF IndexIn(c, UpperLetters) # 0 THEN LowerLetters[IndexIn(c, UpperLetters)]
    ELSE c

UpperChar(c) ==
    IF IndexIn(c, LowerLetters) # 0 THEN UpperLetters[IndexIn(c, LowerLetters)]
    ELSE c

\* str.lower()
StrLower(s) == [i \in 1..Len(s) |-> LowerChar(s[i])]

\* str.title(): a letter that follows no letter is upper-cased, any other
\* letter lower-cased.
StrTitle(s) ==
    [i \in 1..Len(s) |->
        IF i = 1 \/ ~IsLetter(s[i - 1]) THEN UpperChar(s[i]) ELSE LowerChar(s[i])]

\* str.strip(): without the leading and trailing whitespace.
StrStrip(s) ==
    LET keep == {i \in 1..Len(s) : s[i] \notin Whitespace}
    IN  IF keep = {} THEN <<>>
        ELSE LET lo == CHOOSE i \in keep : \A j \in keep : i <= j
                 hi == CHOOSE i \in keep : \A j \in keep : j <= i
             IN  SubSeq(s, lo, hi)

\* str.replace("_", " ")
StrUnderscoreToSpace(s) == [i \in 1..Len(s) |-> IF s[i] = "_" THEN " " ELSE s[i]]

----------------------------------------------------------------------------
(* federatedlearning.py: constants *)

Str_rubber == <<"r", "u", "b", "b", "e", "r">>

Str_tea == <<"t", "e", "a">>

Str_coffee == <<"c", "o", "f", "f", "e", "e">>

Str_mango == <<"m", "a", "n", "g", "o">>

Str_banana == <<"b", "a", "n", "a", "n", "a">>

SUPPORTED_CROPS == <<Str_rubber, Str_tea, Str_coffee, Str_mango, Str_banana>>

Str_Kottayam == <<"K", "o", "t", "t", "a", "y", "a", "m">>

Str_Idukki == <<"I", "d", "u", "k", "k", "i">>

Str_Ernakulam == <<"E", "r", "n", "a", "k", "u", "l", "a", "m">>

REGIONS == <<Str_Kottayam, Str_Idukki, Str_Ernakulam>>

DAYS == 365

WINDOW == 30

FORECAST_HORIZON == 30

\* first_7 = data["forecast"][:7]
RECOMMEND_DAYS == 7

\* FederatedPricePredictor(seed=42)
SEED == 42

InSeq(x, seq) == \E i \in 1..Len(seq) : seq[i] = x

\* cents
BASE_PRICES ==
    (Str_rubber :> 16000) @@ (Str_tea :> 8500) @@ (Str_coffee :> 25000)
    @@ (Str_mango :> 6000) @@ (Str_banana :> 3500)

\* hundredths of the base price
SEASONAL_AMP ==
    (Str_rubber :> 10) @@ (Str_tea :> 12) @@ (Str_coffee :> 12)
    @@ (Str_mango :> 25) @@ (Str_banana :> 5)

\* the phase shift as a number of days of the 365-day cycle
SEASONAL_PHASE ==
    (Str_rubber :> 0) @@ (Str_tea :> 46) @@ (Str_coffee :> 61)
    @@ (Str_mango :> -61) @@ (Str_banana :> 0)

\* cents
REGION_BIAS == (Str_Kottayam :> 0) @@ (Str_Idukki :> 500) @@ (Str_Ernakulam :> -300)

\* hundredths of the base price
NOISE_SCALE ==
    (Str_rubber :> 3) @@ (Str_tea :> 4) @@ (Str_coffee :> 4)
    @@ (Str_mango :> 5) @@ (Str_banana :> 2)

----------------------------------------------------------------------------
(* Dictionaries keep insertion order: a dict is the sequence of its items *)

Item(k, v) == [key |-> k, val |-> v]

DictKeys(d) == [i \in 1..Len(d) |-> d[i].key]

DictGet(d, k) == d[CHOOSE i \in 1..Len(d) : d[i].key = k].val

\* MaxKey taking the last key of a maximal value.
MaxKeyLast(d) ==
    LET best == CHOOSE i \in 1..Len(d) :
                   /\ \A j \in 1..Len(d) : d[j].val <= d[i].val
                   /\ \A j \in (i + 1)..Len(d) : d[j].val < d[i].val
    IN  d[best].key

\* max(d, key=d.get): the first key, in iteration order, of a maximal value.
MaxKey(d) ==
    LET best == CHOOSE i \in 1..Len(d) :
                   /\ \A j \in 1..Len(d) : d[j].val <= d[i].val
                   /\ \A j \in 1..(i - 1) : d[j].val < d[i].val
    IN  d[best].key

----------------------------------------------------------------------------
(* FederatedPricePredictor.federated_average *)

\* A weight list is a sequence of layers, a layer a one-dimensional array:
\* the sequence of its values.  An averaged value is a rational number.

\* layer_sum += w of numpy, on one-dimensional arrays: w is added element by
\* element when it has layer_sum's shape, is broadcast when it holds a single
\* value, and the addition raises ValueError otherwise (None).
LayerAdd(layer_sum, w) ==
    IF Len(w) = Len(layer_sum)
    THEN Some([i \in 1..Len(layer_sum) |-> layer_sum[i] + w[i]])
    ELSE IF Len(w) = 1
    THEN Some([i \in 1..Len(layer_sum) |-> layer_sum[i] + w[1]])
    ELSE None

\* The inner loop of federated_average from region r on: layer_sum after
\* adding the layer of every region, or the exception that ends the loop.
RECURSIVE LayerSum(_, _, _, _)
LayerSum(local_weights, layer_idx, r, layer_sum) ==
    IF r > Len(local_weights)
    THEN [error |-> "none", sum |-> layer_sum]
    ELSE IF layer_idx > Len(local_weights[r].val)
    THEN [error |-> "IndexError", sum |-> layer_sum]
    ELSE LET added == LayerAdd(layer_sum, local_weights[r].val[layer_idx])
         IN  IF IsNone(added)
             THEN [error |-> "ValueError", sum |-> layer_sum]
             ELSE LayerSum(local_weights, layer_idx, r + 1, Get(added))

\* layer_sum / n with every element one count short.
LayerMeanOffByOne(layer_sum, n) ==
    [i \in 1..Len(layer_sum) |-> Norm(layer_sum[i], n + 1)]

\* layer_sum / n
LayerMean(layer_sum, n) == [i \in 1..Len(layer_sum) |-> Norm(layer_sum[i], n)]

\* federated_average(local_weights):
\* [error: "none" or the exception raised, averaged: the list returned]
FederatedAverage(local_weights) ==
    IF Len(local_weights) = 0
    THEN [error |-> "IndexError", averaged |-> <<>>]     \* regions[0]
    ELSE
      LET n == Len(local_weights)
          first == local_weights[1].val
          num_layers == Len(first)
          sums == [layer_idx \in 1..num_layers |->
                     LayerSum(local_weights, layer_idx, 1,
                              [i \in 1..Len(first[layer_idx]) |-> 0])]
          failed == {l \in 1..num_layers : sums[l].error # "none"}
      IN  IF failed # {}
          THEN [error |-> sums[CHOOSE l \in failed : \A m \in failed : l <= m].error,
                averaged |-> <<>>]
          ELSE [error |-> "none",
                averaged |-> [l \in 1..num_layers |-> LayerMean(sums[l].sum, n)]]

\* The weight lists federated_average is called with directly: one or two
\* layers, each of one or two values.
LayerLens == {1, 2}

LayerCounts == {1, 2}

WeightVals == {2, 4}

LayerOf(len, v) == [i \in 1..len |-> v * i]

LayerInputs == {LayerOf(len, v) : len \in LayerLens, v \in WeightVals}

WeightListInputs ==
    UNION {[1..c -> LayerInputs] : c \in LayerCounts}

\* federated_average is called with dicts of at most MaxAvgRegions regions.
MaxAvgRegions == 2

FedAvgInputs ==
    UNION {{[r \in 1..n |-> Item(REGIONS[r], ws[r])] : ws \in [1..n -> WeightListInputs]}
           : n \in 0..MaxAvgRegions}

NoFa == [called |-> FALSE, input |-> <<>>, error |-> "none", averaged |-> <<>>]

\* A call of the static method federated_average on the dict fa.input.
CallFederatedAverage ==
    LET r == FederatedAverage(fa.input)
    IN  /\ ~fa.called
        /\ fa' = [fa EXCEPT !.called = TRUE, !.error = r.error,
                            !.averaged = r.averaged]

----------------------------------------------------------------------------
(* FederatedPricePredictor: data generation *)

\* sin(2*pi*d/DAYS) in hundredths, piecewise linear between its extremes.
SinHundredths(d0) ==
    LET d == d0 % DAYS
    IN  IF d < 91 THEN (100 * d) \div 91
        ELSE IF d < 182 THEN (100 * (182 - d)) \div 91
        ELSE IF d < 273 THEN -((100 * (d - 182)) \div 91)
        ELSE -((100 * (DAYS - d)) \div 92)

\* The i-th np.random.normal(0, 1) draw after np.random.seed(seed), in tenths:
\* a fixed function of the seed and of the number of draws made before it.
NormalDraw(seed, i) == ((seed + 37 * i) % 41) - 20

\* generate_synthetic_data(crop) draws one noise value per region and day from
\* the global generator; the DataFrame is given by the crop and by the number
\* of draws made before its first one.
\* The price of `region` (its index in REGIONS) on `day`, in cents.
SyntheticPrice(df, region, day) ==
    LET base == BASE_PRICES[df.crop]
        amp == (SEASONAL_AMP[df.crop] * base) \div 100
        noise_std == (NOISE_SCALE[df.crop] * base) \div 100
        seasonal == (amp * SinHundredths(day + SEASONAL_PHASE[df.crop] + DAYS)) \div 100
        draw == df.rng_start + (region - 1) * DAYS + day + 1
        noise == (noise_std * NormalDraw(SEED, draw)) \div 10
    IN  base + seasonal + REGION_BIAS[REGIONS[region]] + noise

\* region_prices[-n:] of one region, region_prices being the DAYS prices
\* df.loc[df["location"] == region, "price"] of days 0 .. DAYS - 1.
RecentRegionPrices(df, region, n) ==
    LET m == IF DAYS <= n THEN DAYS ELSE n
    IN  [i \in 1..m |-> SyntheticPrice(df, region, DAYS - m + i - 1)]

----------------------------------------------------------------------------
(* FederatedPricePredictor: forecasting and recommendation *)

\* ForecastIteration leaving the prediction out of the buffer.
ForecastIterationNoAppend(window_buf, preds, next_val) ==
    [x_input |-> LastN(window_buf, WINDOW),
     window_buf |-> window_buf,
     preds |-> Append(preds, Round2Mills(Whole(next_val)))]

\* One iteration of the loop of forecast_next_30_days; next_val is what
\* model.predict returns for x_input (mills).  The buffer takes the value as
\* predicted, the forecast takes it rounded to cents.
ForecastIteration(window_buf, preds, next_val) ==
    [x_input |-> LastN(window_buf, WINDOW),
     window_buf |-> Append(window_buf, next_val),
     preds |-> Append(preds, Round2Mills(Whole(next_val)))]

\* The loop of forecast_next_30_days for one region from step k on; stream[k]
\* is what model.predict returns at step k (mills).  The buffer is in mills,
\* the predictions are rounded to cents.
RECURSIVE ForecastLoop(_, _, _, _)
ForecastLoop(window_buf, preds, stream, k) ==
    IF k > FORECAST_HORIZON
    THEN [window_buf |-> window_buf, preds |-> preds]
    ELSE LET x_input == LastN(window_buf, WINDOW)
             next_val == stream[k]
         IN  ForecastLoop(Append(window_buf, next_val),
                          Append(preds, Round2Mills(Whole(next_val))),
                          stream, k + 1)

\* window_buf = list(region_prices[-WINDOW:]) of every region, in mills.
SeedWindows(df) ==
    [r \in 1..Len(REGIONS) |->
        LET recent == RecentRegionPrices(df, r, WINDOW)
        IN  [i \in 1..Len(recent) |-> 10 * recent[i]]]

\* forecast_next_30_days: {region: {"forecast": preds}} in REGIONS order.
ForecastNext30Days(seeds, streams) ==
    [r \in 1..Len(REGIONS) |->
        Item(REGIONS[r], ForecastLoop(seeds[r], <<>>, streams[r], 1).preds)]

\* forecast_next_30_days step by step: the locals of the call.
NoFl ==
    [pc |-> "Idle", df |-> None, streams |-> <<>>, region |-> 0, k |-> 0,
     window_buf |-> <<>>, preds |-> <<>>, x_input |-> <<>>, results |-> <<>>]

\* The DataFrames and the model outputs of the calls followed step by step.
ForecastDataFrames ==
    {[crop |-> crop, rng_start |-> rng_start] :
        crop \in {Str_tea, Str_mango}, rng_start \in {0, Len(REGIONS) * DAYS}}

\* The call, up to the first region's seeded buffer.
FlCall(df, streams) ==
    /\ fl.pc \in {"Idle", "Done"}
    /\ fl' = [NoFl EXCEPT !.pc = "Looping", !.df = Some(df), !.streams = streams,
                          !.region = 1, !.window_buf = SeedWindows(df)[1]]

\* for _ in range(FORECAST_HORIZON): one iteration.
FlIterate ==
    /\ fl.pc = "Looping"
    /\ fl.k < FORECAST_HORIZON
    /\ LET it == ForecastIteration(fl.window_buf, fl.preds,
                                   fl.streams[fl.region][fl.k + 1])
       IN  fl' = [fl EXCEPT !.k = fl.k + 1, !.x_input = it.x_input,
                            !.window_buf = it.window_buf, !.preds = it.preds]

\* The inner loop is over: results[region] = {"forecast": preds}, then the
\* next region of REGIONS is seeded, or the results are returned.
FlRegionDone ==
    /\ fl.pc = "Looping"
    /\ fl.k = FORECAST_HORIZON
    /\ LET results == Append(fl.results, Item(REGIONS[fl.region], fl.preds))
       IN  IF fl.region < Len(REGIONS)
           THEN fl' = [fl EXCEPT !.results = results, !.region = fl.region + 1,
                                 !.k = 0, !.preds = <<>>, !.x_input = <<>>,
                                 !.window_buf = SeedWindows(Get(fl.df))[fl.region + 1]]
           ELSE fl' = [fl EXCEPT !.results = results, !.pc = "Done"]

RECURSIVE SumSeq(_)
SumSeq(s) == IF s = <<>> THEN 0 ELSE s[1] + SumSeq(Tail(s))

\* s[:n] of Python
FirstN(s, n) == IF Len(s) <= n THEN s ELSE SubSeq(s, 1, n)

\* Avg7d averaging the whole forecast.
Avg7dWholeForecast(region_forecasts) ==
    [r \in 1..Len(region_forecasts) |->
        Item(region_forecasts[r].key,
             RoundHalfEven(SumSeq(region_forecasts[r].val),
                           Len(region_forecasts[r].val)))]

\* avg_7d: round(mean(forecast[:7]), 2) per region, in cents.
Avg7d(region_forecasts) ==
    [r \in 1..Len(region_forecasts) |->
        LET first_7 == FirstN(region_forecasts[r].val, RECOMMEND_DAYS)
        IN  Item(region_forecasts[r].key,
                 RoundHalfEven(SumSeq(first_7), Len(first_7)))]

NoFedResult ==
    [op |-> "none", outcome |-> "none", crop |-> <<>>, regions |-> <<>>,
     current_location |-> <<>>, current_price |-> 0, best_region |-> <<>>,
     expected_avg |-> 0, price_difference |-> 0, all_region_averages |-> <<>>,
     recommendation |-> "none"]

\* What recommend_best_region returns from the pipeline's forecasts
\* (current_price in mills, the averages and the difference in cents).
Recommendation(crop, current_price, current_location, region_forecasts) ==
    LET avg_7d == Avg7d(region_forecasts)
        best_region == MaxKey(avg_7d)
        best_avg == DictGet(avg_7d, best_region)
        price_diff == RoundHalfEven(best_avg * 10 - current_price, 10)
    IN  [NoFedResult EXCEPT
            !.op = "recommend_best_region", !.outcome = "ok", !.crop = crop,
            !.regions = region_forecasts,
            !.current_location = current_location,
            !.current_price = current_price,
            !.best_region = IF best_region = current_location
                            THEN current_location ELSE best_region,
            !.expected_avg = best_avg,
            !.price_difference = price_diff,
            !.all_region_averages = avg_7d,
            !.recommendation = IF best_region = current_location
                               THEN "Current location is optimal for selling"
                               ELSE "Sell in best_region for higher expected returns"]

----------------------------------------------------------------------------
(* FederatedPricePredictor: run_federated_pipeline and recommend_best_region *)

\* At most MaxFedCalls calls are made on one FederatedPricePredictor.
MaxFedCalls == 2

\* The crop and region arguments of the calls.
CropInputs == {<<"t", "e", "a">>, <<" ", "M", "a", "n", "g", "o", "\n">>, <<"w", "h", "e", "a", "t">>, <<"t", "e", " ", "a">>}

LocationInputs == {<<"K", "o", "t", "t", "a", "y", "a", "m">>, <<" ", "i", "d", "u", "k", "k", "i">>, <<"E", "R", "N", "A", "K", "U", "L", "A", "M", " ">>, <<"K", "o", "c", "h", "i">>}

\* The current prices handed to recommend_best_region (mills).
FedPriceInputs == {95000, 110500}

\* The weights model.get_weights() returns after a local training: the
\* architecture of create_model fixes the number of layers and their shapes
\* (here two layers of two values and one value), the training their values.
TrainedWeights == {<<LayerOf(2, 2), LayerOf(1, 2)>>, <<LayerOf(2, 4), LayerOf(1, 4)>>}

\* What model.predict returns over the FORECAST_HORIZON steps of one region
\* (mills): `first` at step 1, `week` up to step RECOMMEND_DAYS, `later` after.
StreamOf(first, week, later) ==
    [k \in 1..FORECAST_HORIZON |->
        IF k = 1 THEN first ELSE IF k <= RECOMMEND_DAYS THEN week ELSE later]

PredStreams ==
    {StreamOf(100004, 100000, 50000), StreamOf(100010, 100000, 50000),
     StreamOf(120000, 120000, 50000), StreamOf(90000, 90000, 200000)}

NoRun == [df |-> None, local_weights |-> None, global_weights |-> None,
          region_forecasts |-> None]

FedInit ==
    /\ rng_draws = 0          \* np.random.seed(seed) in __init__
    /\ fed_calls = 0
    /\ fed_call = [op |-> "none", crop_raw |-> <<>>, location_raw |-> <<>>,
                   current_price |-> 0, crop |-> <<>>, current_location |-> <<>>]
    /\ fed_pc = "Idle"
    /\ fed_log = <<>>
    /\ fed_run = NoRun
    /\ fed_result = NoFedResult
    /\ fed_generated = <<>>

\* FedValidate without the check of the region.
FedValidateCropOnly(op, crop_raw, location_raw) ==
    IF ~InSeq(StrLower(StrStrip(crop_raw)), SUPPORTED_CROPS)
    THEN "UnsupportedCrop" ELSE "ok"

\* The checks at the head of run_federated_pipeline and recommend_best_region.
FedValidate(op, crop_raw, location_raw) ==
    IF ~InSeq(StrLower(StrStrip(crop_raw)), SUPPORTED_CROPS)
    THEN "UnsupportedCrop"
    ELSE IF op = "recommend_best_region"
            /\ ~InSeq(StrTitle(StrStrip(location_raw)), REGIONS)
    THEN "UnknownRegion"
    ELSE "ok"

\* A call of run_federated_pipeline(crop) or of recommend_best_region(crop,
\* current_price, current_location), up to the end of its argument checks.
\* recommend_best_region hands the normalised crop to run_federated_pipeline,
\* which normalises and checks it again.
FedCall(op, crop_raw, current_price, location_raw) ==
    LET v == FedValidate(op, crop_raw, location_raw)
        crop == StrLower(StrStrip(crop_raw))
        current_location == StrTitle(StrStrip(location_raw))
        v2 == FedValidate("run_federated_pipeline", crop, <<>>)
    IN  /\ fed_pc \in {"Idle", "Done", "Failed", "Rejected"}
        /\ fed_calls < MaxFedCalls
        /\ fed_calls' = fed_calls + 1
        /\ fed_call' = [op |-> op, crop_raw |-> crop_raw,
                        location_raw |-> location_raw,
                        current_price |-> current_price,
                        crop |-> StrLower(StrStrip(crop)),
                        current_location |-> current_location]
        /\ fed_log' = <<>>
        /\ fed_run' = NoRun
        /\ IF v # "ok" \/ v2 # "ok"
           THEN /\ fed_pc' = "Rejected"
                /\ fed_result' = [NoFedResult EXCEPT !.op = op,
                                     !.outcome = IF v # "ok" THEN v ELSE v2]
           ELSE /\ fed_pc' = "Validated"
                /\ fed_result' = [NoFedResult EXCEPT !.op = op]
        /\ UNCHANGED <<rng_draws, fed_generated>>

\* 1. df = self.generate_synthetic_data(crop)
FedGenerate ==
    /\ fed_pc = "Validated"
    /\ fed_run' = [fed_run EXCEPT
                     !.df = Some([crop |-> fed_call.crop, rng_start |-> rng_draws])]
    /\ rng_draws' = rng_draws + Len(REGIONS) * DAYS
    /\ fed_generated' =
          Append(fed_generated, [crop |-> fed_call.crop, rng_start |-> rng_draws])
    /\ fed_log' = Append(fed_log, "DataGenerated")
    /\ fed_pc' = "DataGenerated"
    /\ UNCHANGED <<fed_calls, fed_call, fed_result>>

\* FedTrainLocal leaving the last region out of local_weights.
FedTrainLocalSkipsRegion(weights, fitOk) ==
    /\ fed_pc = "DataGenerated"
    /\ IF fitOk
       THEN /\ fed_run' = [fed_run EXCEPT !.local_weights =
                             Some([r \in 1..(Len(REGIONS) - 1) |->
                                     Item(REGIONS[r], weights[r])])]
            /\ fed_log' = Append(fed_log, "LocallyTrained")
            /\ fed_pc' = "LocallyTrained"
            /\ UNCHANGED fed_result
       ELSE /\ fed_run' = NoRun
            /\ fed_pc' = "Failed"
            /\ fed_result' = [fed_result EXCEPT !.outcome = "train_local_models"]
            /\ UNCHANGED fed_log
    /\ UNCHANGED <<rng_draws, fed_generated, fed_calls, fed_call>>

\* 2. local_weights = self.train_local_models(df): one model per region in
\* REGIONS order; fitOk: whether every model.fit returns.
FedTrainLocal(weights, fitOk) ==
    /\ fed_pc = "DataGenerated"
    /\ IF fitOk
       THEN /\ fed_run' = [fed_run EXCEPT !.local_weights =
                             Some([r \in 1..Len(REGIONS) |->
                                     Item(REGIONS[r], weights[r])])]
            /\ fed_log' = Append(fed_log, "LocallyTrained")
            /\ fed_pc' = "LocallyTrained"
            /\ UNCHANGED fed_result
       ELSE /\ fed_run' = NoRun
            /\ fed_pc' = "Failed"
            /\ fed_result' = [fed_result EXCEPT !.outcome = "train_local_models"]
            /\ UNCHANGED fed_log
    /\ UNCHANGED <<rng_draws, fed_generated, fed_calls, fed_call>>

\* 3. global_weights = self.federated_average(local_weights)
FedAverage ==
    LET r == FederatedAverage(Get(fed_run.local_weights))
    IN  /\ fed_pc = "LocallyTrained"
        /\ IF r.error = "none"
           THEN /\ fed_run' = [fed_run EXCEPT !.global_weights = Some(r.averaged)]
                /\ fed_log' = Append(fed_log, "Averaged")
                /\ fed_pc' = "Averaged"
                /\ UNCHANGED fed_result
           ELSE /\ fed_run' = NoRun
                /\ fed_pc' = "Failed"
                /\ fed_result' = [fed_result EXCEPT !.outcome = r.error]
                /\ UNCHANGED fed_log
        /\ UNCHANGED <<rng_draws, fed_generated, fed_calls, fed_call>>

\* FedForecast handing back the forecasts made when a predict call raises.
FedForecastPartial ==
    /\ fed_pc = "Averaged"
    /\ LET seeds == SeedWindows(Get(fed_run.df))
       IN  \E streams \in [1..Len(REGIONS) -> PredStreams], predictOk \in BOOLEAN :
             /\ fed_run' = [fed_run EXCEPT !.region_forecasts =
                              Some(ForecastNext30Days(seeds, streams))]
             /\ IF predictOk
                THEN /\ fed_log' = Append(fed_log, "Forecasted")
                     /\ fed_pc' = "Forecasted"
                     /\ UNCHANGED fed_result
                ELSE /\ fed_pc' = "Failed"
                     /\ fed_result' = [fed_result EXCEPT
                                          !.outcome = "forecast_next_30_days",
                                          !.regions = ForecastNext30Days(seeds, streams)]
                     /\ UNCHANGED fed_log
    /\ UNCHANGED <<rng_draws, fed_generated, fed_calls, fed_call>>

\* 4. region_forecasts = self.forecast_next_30_days(crop, df, global_weights);
\* predictOk: whether set_weights and every model.predict return.
FedForecast ==
    /\ fed_pc = "Averaged"
    /\ LET seeds == SeedWindows(Get(fed_run.df))
       IN  \E streams \in [1..Len(REGIONS) -> PredStreams], predictOk \in BOOLEAN :
             IF predictOk
             THEN /\ fed_run' = [fed_run EXCEPT !.region_forecasts =
                                   Some(ForecastNext30Days(seeds, streams))]
                  /\ fed_log' = Append(fed_log, "Forecasted")
                  /\ fed_pc' = "Forecasted"
                  /\ UNCHANGED fed_result
             ELSE /\ fed_run' = NoRun
                  /\ fed_pc' = "Failed"
                  /\ fed_result' = [fed_result EXCEPT
                                       !.outcome = "forecast_next_30_days"]
                  /\ UNCHANGED fed_log
    /\ UNCHANGED <<rng_draws, fed_generated, fed_calls, fed_call>>

\* The return of run_federated_pipeline and, in recommend_best_region, the
\* recommendation computed from it.
FedReturn ==
    LET region_forecasts == Get(fed_run.region_forecasts)
    IN  /\ fed_pc = "Forecasted"
        /\ fed_result' =
              IF fed_call.op = "recommend_best_region"
              THEN Recommendation(fed_call.crop, fed_call.current_price,
                                  fed_call.current_location, region_forecasts)
              ELSE [NoFedResult EXCEPT !.op = fed_call.op, !.outcome = "ok",
                                       !.crop = fed_call.crop,
                                       !.regions = region_forecasts]
        /\ fed_run' = NoRun
        /\ fed_log' = Append(fed_log, "Done")
        /\ fed_pc' = "Done"
        /\ UNCHANGED <<rng_draws, fed_generated, fed_calls, fed_call>>

----------------------------------------------------------------------------
(* AgronomicAdvisoryLayer: engine.py. Weather values and thresholds are in
   tenths, bias multipliers in hundredths. *)

Rule(metric, op, val, bias, impact) ==
    [metric |-> metric, op |-> op, val |-> val, bias |-> bias, impact |-> impact]

CROP_KNOWLEDGE ==
    <<
      Item(<<"r", "u", "b", "b", "e", "r">>,
           Rule("precip", ">", 1, 105,
                "Tapping interference detected. Daily supply likely to drop.")),
      Item(<<"b", "l", "a", "c", "k", " ", "p", "e", "p", "p", "e", "r">>,
           Rule("humidity", ">", 850, 108,
                "Fungal stress alert. Potential for spike shedding.")),
      Item(<<"p", "e", "p", "p", "e", "r">>,
           Rule("humidity", ">", 850, 108,
                "Fungal stress alert. Potential for spike shedding.")),
      Item(<<"c", "a", "r", "d", "a", "m", "o", "m">>,
           Rule("temp", ">", 300, 106,
                "Heat stress in high-ranges. Quality of green capsules may decline.")),
      Item(<<"c", "o", "f", "f", "e", "e", " ", "r", "o", "b", "u", "s", "t", "a">>,
           Rule("rain_24h", "<", 100, 104,
                "Blossom shower delay detected; critical for bean setting.")),
      Item(<<"t", "e", "a">>,
           Rule("temp", "<", 150, 105,
                "Frost/Cold stress in high-altitudes. Slows flush growth.")),
      Item(<<"a", "r", "e", "c", "a", "n", "u", "t">>,
           Rule("humidity", ">", 900, 107,
                "Mahali (fruit rot) risk high due to persistent dampness.")),
      Item(<<"c", "a", "s", "h", "e", "w">>,
           Rule("precip", ">", 50, 104,
                "Unseasonal rain during flowering causes nut-drop and mold.")),
      Item(<<"p", "a", "d", "d", "y">>,
           Rule("rain_24h", ">", 500, 106,
                "Submergence risk during grain filling. Supply chain disruption likely.")),
      Item(<<"r", "i", "c", "e">>,
           Rule("rain_24h", ">", 500, 106,
                "Submergence risk during grain filling. Supply chain disruption likely.")),
      Item(<<"t", "a", "p", "i", "o", "c", "a">>,
           Rule("rain_24h", ">", 1200, 90,
                "Root saturation detected. Quality of starch may be affected.")),
      Item(<<"y", "a", "m">>,
           Rule("temp", ">", 380, 104,
                "Heat stress affecting tuber expansion in laterite soils.")),
      Item(<<"s", "w", "e", "e", "t", " ", "p", "o", "t", "a", "t", "o">>,
           Rule("humidity", "<", 500, 103,
                "Dry spell detected; critical for vine health in Kottayam midlands.")),
      Item(<<"b", "a", "n", "a", "n", "a", " ", "n", "e", "n", "d", "r", "a", "n">>,
           Rule("wind_speed", ">", 400, 110,
                "Lodging risk high for heavy bunches. Supply volatility expected.")),
      Item(<<"b", "a", "n", "a", "n", "a">>,
           Rule("wind_speed", ">", 400, 110,
                "Lodging risk high for heavy bunches. Supply volatility expected.")),
      Item(<<"p", "i", "n", "e", "a", "p", "p", "l", "e">>,
           Rule("temp", ">", 340, 103,
                "Sun-scald warning. Grade-A availability may tighten.")),
      Item(<<"j", "a", "c", "k", "f", "r", "u", "i", "t">>,
           Rule("rain_24h", ">", 800, 105,
                "Internal rot risk due to excessive moisture absorption.")),
      Item(<<"m", "a", "n", "g", "o">>,
           Rule("precip", ">", 20, 106,
                "Unseasonal rain during bloom may cause 'Powdery Mildew'.")),
      Item(<<"p", "a", "p", "a", "y", "a">>,
           Rule("humidity", ">", 950, 104,
                "Anthracnose risk high. Shelf-life of harvest will decrease.")),
      Item(<<"g", "i", "n", "g", "e", "r">>,
           Rule("rain_24h", ">", 1500, 108,
                "Rhizome rot alert. Extreme moisture in clay-rich soils.")),
      Item(<<"t", "u", "r", "m", "e", "r", "i", "c">>,
           Rule("temp", ">", 360, 104,
                "Leaf blotch risk during extreme heat waves.")),
      Item(<<"n", "u", "t", "m", "e", "g">>,
           Rule("wind_speed", ">", 350, 106,
                "Fruit drop alert. High sensitivity to heavy monsoon gusts.")),
      Item(<<"c", "o", "c", "o", "a">>,
           Rule("humidity", "<", 600, 105,
                "Pod desiccation risk. Requires immediate shade management.")),
      Item(<<"c", "l", "o", "v", "e">>,
           Rule("temp", ">", 320, 104,
                "Drying stress on flower buds; impacts oil content.")),
      Item(<<"v", "a", "n", "i", "l", "l", "a">>,
           Rule("humidity", ">", 800, 105,
                "Critical for pollination success and bean length.")),
      Item(<<"b", "e", "t", "e", "l", " ", "l", "e", "a", "f">>,
           Rule("temp", "<", 180, 103,
                "Cold-induced wilting; common in Kottayam winter nights.")),
      Item(<<"c", "i", "n", "n", "a", "m", "o", "n">>,
           Rule("precip", ">", 200, 104,
                "Bark peeling difficulty increases with soil moisture spikes.")),
      Item(<<"g", "a", "r", "l", "i", "c">>,
           Rule("humidity", ">", 700, 105,
                "Bulb mold risk; requires dry conditions for curing.")),
      Item(<<"c", "o", "c", "o", "n", "u", "t">>,
           Rule("wind_speed", ">", 500, 112,
                "Button shedding / Premature nut fall due to high winds."))
    >>

_OPSInclusive(op_str, a, b) ==
    CASE op_str = ">"  -> a >= b
      [] op_str = "<"  -> a <= b
      [] op_str = ">=" -> a >= b
      [] op_str = "<=" -> a <= b
      [] OTHER         -> a >= b

\* _OPS.get(op_str, operator.gt)
_OPS(op_str, a, b) ==
    CASE op_str = ">"  -> a > b
      [] op_str = "<"  -> a < b
      [] op_str = ">=" -> a >= b
      [] op_str = "<=" -> a <= b
      [] OTHER         -> a > b

\* dict.get(key) on a dictionary held as a sequence of items.
DictGetOpt(d, k) ==
    IF \E i \in 1..Len(d) : d[i].key = k THEN Some(DictGet(d, k)) ELSE None

\* weather.get(metric, 0) on a snapshot held as a function of its metrics.
WeatherGet(weather, metric) ==
    IF metric \in DOMAIN weather THEN weather[metric] ELSE 0

LookupRuleExactOnly(crop_id) ==
    DictGetOpt(CROP_KNOWLEDGE, StrLower(StrStrip(crop_id)))

\* The rule evaluate finds for crop_id: the stripped, lower-cased id is
\* looked up first, then that key with underscores replaced by spaces.
LookupRule(crop_id) ==
    LET lookup == StrLower(StrStrip(crop_id))
        rule == DictGetOpt(CROP_KNOWLEDGE, lookup)
    IN  IF IsNone(rule)
        THEN DictGetOpt(CROP_KNOWLEDGE, StrUnderscoreToSpace(lookup))
        ELSE rule

\* An f-string around one crop name: the literal text before it, the name,
\* the literal text after it.
Message(prefix, crop, suffix) == [prefix |-> prefix, crop |-> crop, suffix |-> suffix]

RuleUsed(rule) == <<rule.metric, rule.op, rule.val>>

NoRuleResultTitled(crop_id) ==
    [outcome |-> "ok", triggered |-> FALSE, biological_risk_alert |-> FALSE,
     bias |-> 100,
     insight |-> Message("No agronomic rules defined for '", StrTitle(crop_id), "'."),
     rule_used |-> <<"none">>, metric_value |-> None]

\* The result for a crop without a rule.
NoRuleResult(crop_id) ==
    [outcome |-> "ok", triggered |-> FALSE, biological_risk_alert |-> FALSE,
     bias |-> 100,
     insight |-> Message("No agronomic rules defined for '", crop_id, "'."),
     rule_used |-> <<"none">>, metric_value |-> None]

\* AgronomicAdvisoryLayer.evaluate
evaluate(crop_id, weather) ==
    LET found == LookupRule(crop_id)
    IN  IF IsNone(found) THEN NoRuleResult(crop_id)
        ELSE LET rule == Get(found)
                 actual_value == WeatherGet(weather, rule.metric)
                 triggered == _OPS(rule.op, actual_value, rule.val)
             IN  IF triggered
                 THEN [outcome |-> "ok", triggered |-> TRUE,
                       biological_risk_alert |-> TRUE,
                       bias |-> rule.bias,
                       insight |-> Message(rule.impact, <<>>, ""),
                       rule_used |-> RuleUsed(rule),
                       metric_value |-> Some(actual_value)]
                 ELSE [outcome |-> "ok", triggered |-> FALSE,
                       biological_risk_alert |-> FALSE,
                       bias |-> 100,
                       insight |-> Message("No biological risk detected for ",
                                           StrTitle(crop_id),
                                           ". Weather within safe thresholds."),
                       rule_used |-> RuleUsed(rule),
                       metric_value |-> Some(actual_value)]

(* Calls of evaluate *)

\* The keys of a snapshot that WeatherClient.fetch returns.
WeatherMetrics == {"temp", "humidity", "precip", "rain", "wind_speed", "rain_24h"}

ThresholdMargin == 1

\* The readings tried: zero, and those at and around each rule's threshold.
WeatherVals ==
    {0} \cup {v \in 0..2000 :
                \E i \in 1..Len(CROP_KNOWLEDGE) :
                    Abs(v - CROP_KNOWLEDGE[i].val.val) <= ThresholdMargin}

\* A snapshot with the reading v for every metric outside absent.
Snapshot(v, absent) == [m \in WeatherMetrics \ absent |-> v]

WeatherInputs ==
    {Snapshot(v, absent) :
        v \in WeatherVals, absent \in {{}, {"temp", "rain_24h", "humidity"}}}
    \cup {Snapshot(0, WeatherMetrics)}

KnownCropIds ==
    {<<" ", "R", "u", "b", "b", "e", "r", " ">>,
     <<"B", "L", "A", "C", "K", "_", "P", "E", "P", "P", "E", "R">>,
     <<"b", "l", "a", "c", "k", "_", "p", "e", "p", "p", "e", "r">>,
     <<"S", "w", "e", "e", "t", "_", "P", "o", "t", "a", "t", "o", "\n">>,
     <<"\t", "T", "E", "A">>,
     <<"C", "o", "f", "f", "e", "e", "_", "R", "o", "b", "u", "s", "t", "a">>}

UnknownCropIds ==
    {<<"w", "h", "e", "a", "t">>,
     <<>>,
     <<"s", "o", "y", "_", "b", "e", "a", "n">>,
     <<"t", "e", " ", "a">>,
     <<"_", "t", "e", "a">>,
     <<"b", "l", "a", "c", "k", " ", " ", "p", "e", "p", "p", "e", "r">>,
     <<"r", "u", "b", "b", "e", "r", " ", "t", "r", "e", "e">>,
     <<" ", " ", " ">>}

CropIdInputs ==
    {CROP_KNOWLEDGE[i].key : i \in 1..Len(CROP_KNOWLEDGE)}
    \cup KnownCropIds \cup UnknownCropIds

NoAdv ==
    [called |-> FALSE, crop_id |-> <<>>, weather |-> Snapshot(0, WeatherMetrics),
     result |-> NoRuleResult(<<>>)]

\* One call of evaluate on the arguments held in adv.
CallEvaluate ==
    /\ ~adv.called
    /\ adv' = [adv EXCEPT !.called = TRUE,
                          !.result = evaluate(adv.crop_id, adv.weather)]

----------------------------------------------------------------------------
(* Calls made directly on a SeasonalityModel and a ShockModel *)

\* What the last direct call did: the operation, the series it was given,
\* whether the library's fit returned, whether the call raised and with
\* what, the value it returned, and whether a train call has completed on
\* each model so far.
NoFc ==
    [op |-> "none", series |-> <<>>, fit_ok |-> TRUE, raised |-> FALSE,
     exc |-> "none", value |-> 0,
     seasonal_completed |-> FALSE, shock_completed |-> FALSE]

\* The windows of recent prices handed to ShockModel.predict.
RecentInputs == {SeriesOf(SHOCK_WINDOW, 1004), SeriesOf(1, 1004)}

FcSeasonalityTrain(df, fitOk) ==
    LET r == SeasonalityTrain(seasonality, df, fitOk)
    IN  /\ seasonality' = r.sm
        /\ fc' = [fc EXCEPT !.op = "SeasonalityModel.train", !.series = df,
                            !.fit_ok = fitOk, !.raised = r.raised,
                            !.exc = IF ~r.raised THEN "none"
                                    ELSE IF prepare_prophet_df(df) = <<>>
                                    THEN "ValueError" ELSE "Prophet.fit",
                            !.value = 0,
                            !.seasonal_completed = fc.seasonal_completed \/ ~r.raised]
        /\ UNCHANGED <<data, hp_trained, shock, result>>

FcShockTrain(prices, fitOk) ==
    LET r == ShockTrain(shock, prices, fitOk)
    IN  /\ shock' = r.sh
        /\ fc' = [fc EXCEPT !.op = "ShockModel.train", !.series = prices,
                            !.fit_ok = fitOk, !.raised = r.raised,
                            !.exc = IF ~r.raised THEN "none"
                                    ELSE IF prices = <<>> THEN "IndexError"
                                    ELSE IF create_sequences_raises(prices, SHOCK_WINDOW)
                                    THEN "ValueError" ELSE "Model.fit",
                            !.value = 0,
                            !.shock_completed = fc.shock_completed \/ ~r.raised]
        /\ UNCHANGED <<data, hp_trained, seasonality, result>>

\* The exception that leaves a predict call which gave no value.
PredictExc(trained) == IF ~trained THEN "RuntimeError" ELSE "predict"

FcSeasonalityPredict(out) ==
    LET p == SeasonalityPredict(seasonality, out)
    IN  /\ fc' = [fc EXCEPT !.op = "SeasonalityModel.predict", !.series = <<>>,
                            !.fit_ok = TRUE, !.raised = IsNone(p),
                            !.exc = IF IsNone(p) THEN PredictExc(seasonality.trained)
                                    ELSE "none",
                            !.value = IF IsNone(p) THEN 0 ELSE Get(p)]
        /\ UNCHANGED hybridVars

FcGetTrendValue(out) ==
    LET r == GetTrendValue(seasonality, out)
    IN  /\ fc' = [fc EXCEPT !.op = "SeasonalityModel.get_trend_value",
                            !.series = <<>>, !.fit_ok = TRUE,
                            !.raised = r.raised,
                            !.exc = IF r.raised THEN PredictExc(seasonality.trained)
                                    ELSE "none",
                            !.value = r.value]
        /\ UNCHANGED hybridVars

FcShockPredict(recent, out) ==
    LET p == ShockPredict(shock, recent, out)
    IN  /\ fc' = [fc EXCEPT !.op = "ShockModel.predict", !.series = recent,
                            !.fit_ok = TRUE, !.raised = IsNone(p),
                            !.exc = IF IsNone(p) THEN PredictExc(shock.trained)
                                    ELSE "none",
                            !.value = IF IsNone(p) THEN 0 ELSE Get(p)]
        /\ UNCHANGED hybridVars

FcGetCorrection(recent, out) ==
    LET r == GetCorrection(shock, recent, out)
    IN  /\ fc' = [fc EXCEPT !.op = "ShockModel.get_correction",
                            !.series = recent, !.fit_ok = TRUE,
                            !.raised = r.raised,
                            !.exc = IF r.raised THEN PredictExc(shock.trained)
                                    ELSE "none",
                            !.value = r.value]
        /\ UNCHANGED hybridVars

----------------------------------------------------------------------------
(* The application: main.py. The startup and the handlers are coroutines of
   one event loop, on the shared predictor, advisor and signer; a coroutine
   gives the loop up only at an await. *)

\* What LivePriceInformer.fetch returns: the empty quote (no API key, an
\* HTTP error, no usable record) or the summary of the records, avg_modal in
\* mills.
Quote(record_count, avg_modal) == [record_count |-> record_count, avg_modal |-> avg_modal]

MarketQuotes == {Quote(0, 0), Quote(1, 500), Quote(2, 1250)}

\* What WeatherClient.fetch returns: the all-zero defaults after a failed
\* request, or the readings received.
WeatherSnapshots == {Snapshot(0, {}), Snapshot(2, {}), Snapshot(1201, {})}

RequestCropIds == {<<"r", "u", "b", "b", "e", "r">>, <<"T", "a", "p", "i", "o", "c", "a", " ">>, <<"w", "h", "e", "a", "t">>}

MaxRequests == 1

NoResponse == [kind |-> "none"]

AppInit ==
    [started |-> FALSE, training |-> FALSE, trainings |-> 0,
     requests |-> 0, pc |-> "Idle", crop_id |-> <<>>,
     market |-> None, weather |-> None, log |-> <<>>, response |-> NoResponse,
     analytics_requests |-> 0, analytics_response |-> NoResponse]

\* LoopFree with the training pass run off the event loop.
LoopFreeDuringTraining == TRUE

\* predictor.train(lstm_epochs=10) is called in the lifespan coroutine
\* without an await: the event loop runs no handler until the call returns.
LoopFree == ~app.training

\* lifespan, up to the call of predictor.train: the one training pass of the
\* application starts, before the application serves.
LifespanEnter ==
    /\ ~app.started /\ ~app.training
    /\ app.pc = "Idle" /\ app.requests = 0 /\ app.analytics_requests = 0
    /\ app' = [app EXCEPT !.training = TRUE, !.trainings = app.trainings + 1]
    /\ UNCHANGED hybridVars

\* lifespan, from the return of predictor.train: the predictor is trained on
\* synthetic data; a training that raises ends the startup.
Lifespan(syn, pFit, kFit) ==
    /\ app.training
    /\ Train(None, syn, pFit, kFit)
    /\ app' = [app EXCEPT !.training = FALSE, !.started = TRUE,
                          !.pc = IF result'.outcome = "ok" THEN "Idle" ELSE "Exited"]

\* PredictIssue with the weather fetch not issued before the await.
PredictIssueMarketOnly(crop_id) ==
    /\ LoopFree
    /\ app.pc \in {"Idle", "Responded", "Errored"}
    /\ app.requests < MaxRequests
    /\ app' = [app EXCEPT !.requests = app.requests + 1, !.pc = "Gathering",
                          !.crop_id = crop_id,
                          !.market = None, !.weather = None,
                          !.log = <<"live_informer.fetch">>,
                          !.response = NoResponse]
    /\ UNCHANGED hybridVars

\* predict, up to the await: both fetches are issued, then gathered.
PredictIssue(crop_id) ==
    /\ LoopFree
    /\ app.pc \in {"Idle", "Responded", "Errored"}
    /\ app.requests < MaxRequests
    /\ app' = [app EXCEPT !.requests = app.requests + 1, !.pc = "Gathering",
                          !.crop_id = crop_id,
                          !.market = None, !.weather = None,
                          !.log = <<"live_informer.fetch", "weather_client.fetch">>,
                          !.response = NoResponse]
    /\ UNCHANGED hybridVars

\* LivePriceInformer.fetch returns.
MarketReturns(market_data) ==
    /\ LoopFree
    /\ app.pc = "Gathering" /\ IsNone(app.market)
    /\ app' = [app EXCEPT !.market = Some(market_data),
                          !.log = Append(app.log, "market_data")]
    /\ UNCHANGED hybridVars

\* WeatherClient.fetch returns.
WeatherReturns(weather) ==
    /\ LoopFree
    /\ app.pc = "Gathering" /\ IsNone(app.weather)
    /\ app' = [app EXCEPT !.weather = Some(weather),
                          !.log = Append(app.log, "weather")]
    /\ UNCHANGED hybridVars

\* A fetch raises (a payload that is not of the expected form): gather raises
\* it in the handler, which ends there.
FetchRaises ==
    /\ LoopFree
    /\ app.pc = "Gathering" /\ (IsNone(app.market) \/ IsNone(app.weather))
    /\ app' = [app EXCEPT !.pc = "Errored",
                          !.log = Append(app.log, "exception"),
                          !.response = [kind |-> "Internal Server Error"]]
    /\ UNCHANGED hybridVars

NoMandiRecordsIfNegative(market_data) == market_data.record_count < 0

\* market_data["record_count"] == 0
NoMandiRecords(market_data) == market_data.record_count = 0

\* The result returned when there are no mandi records.
NoDataResult(crop_id, weather) ==
    [kind |-> "no_data", error |-> TRUE,
     message |-> Message("No active Mandi records for ",
                         StrTitle(StrStrip(crop_id)), " in Kerala today."),
     crop_id |-> StrLower(crop_id),
     crop_name |-> StrTitle(StrStrip(crop_id)),
     weather_snapshot |-> weather]

\* The signed payload of a prediction.
PredictionResponse(prediction, advisory, weather, market_data) ==
    [kind |-> "prediction", error |-> FALSE,
     current_price |-> prediction.current_price,
     predicted_price |-> prediction.price,
     bias_applied |-> prediction.bias,
     biological_risk_alert |-> advisory.biological_risk_alert,
     advisory |-> advisory,
     weather_snapshot |-> weather,
     record_count |-> market_data.record_count,
     signed |-> TRUE]

\* predict, from the return of asyncio.gather to the end of the handler.
PredictResume(sOut, kOut) ==
    /\ LoopFree
    /\ app.pc = "Gathering" /\ ~IsNone(app.market) /\ ~IsNone(app.weather)
    /\ LET market_data == Get(app.market)
           weather == Get(app.weather)
           advisory == evaluate(StrLower(app.crop_id), weather)
           called == app.log \o <<"advisor.evaluate", "predictor.predict_hybrid">>
       IN  IF NoMandiRecords(market_data)
           THEN /\ app' = [app EXCEPT !.pc = "Responded",
                                      !.response = NoDataResult(app.crop_id, weather)]
                /\ UNCHANGED hybridVars
           ELSE /\ PredictHybrid(market_data.avg_modal, Some(advisory.bias), sOut, kOut)
                /\ app' =
                     IF result'.outcome = "RuntimeError"
                     THEN [app EXCEPT !.pc = "Responded", !.log = called,
                                      !.response = [kind |-> "HTTPException 503"]]
                     ELSE IF result'.outcome # "ok"
                     THEN [app EXCEPT !.pc = "Responded", !.log = called,
                                      !.response = [kind |-> result'.outcome]]
                     ELSE [app EXCEPT
                             !.pc = "Responded",
                             !.log = Append(called, "signer.sign"),
                             !.response =
                                 PredictionResponse(result', advisory, weather,
                                                    market_data)]

\* analytics: the whole handler, which has no await.
Analytics(sOut, kOut) ==
    /\ LoopFree
    /\ app.pc # "Exited"
    /\ app.analytics_requests < MaxRequests
    /\ GetAnalytics(sOut, kOut)
    /\ app' = [app EXCEPT
                 !.analytics_requests = app.analytics_requests + 1,
                 !.analytics_response =
                     IF result'.outcome = "RuntimeError"
                     THEN [kind |-> "HTTPException 503"]
                     ELSE IF result'.outcome # "ok"
                     THEN [kind |-> result'.outcome]
                     ELSE [kind |-> "analytics",
                           shock_alert |-> result'.shock_alert,
                           confidence_score |-> result'.confidence_score]]

----------------------------------------------------------------------------
(* HybridPredictor._generate_xai_attribution. self.data is None or a
   DataFrame, given by its optional columns rainfall and demand; a column is
   the sequence of its values, which has the rows of the price series. *)

DataFrame(rainfall, demand) == [rainfall |-> rainfall, demand |-> demand]

\* RainfallAnomaly firing at 0.80 times the mean as well.
RainfallAnomalyInclusive(rainfall) ==
    LET rainfall_mean == Norm(SumSeq(rainfall), Len(rainfall))
        recent_rainfall == Whole(Last(rainfall))
    IN  /\ FracLess(Whole(0), rainfall_mean)
        /\ ~FracLess(FracMul(Frac(4, 5), rainfall_mean), recent_rainfall)

\* rainfall_mean > 0 and recent_rainfall < 0.80 * rainfall_mean
RainfallAnomaly(rainfall) ==
    LET rainfall_mean == Norm(SumSeq(rainfall), Len(rainfall))
        recent_rainfall == Whole(Last(rainfall))
    IN  /\ FracLess(Whole(0), rainfall_mean)
        /\ FracLess(recent_rainfall, FracMul(Frac(4, 5), rainfall_mean))

\* deficit_pct = round((1 - recent_rainfall / rainfall_mean) * 100, 1), in
\* tenths of a percent.
DeficitPct(rainfall) ==
    RoundHalfEven((SumSeq(rainfall) - Last(rainfall) * Len(rainfall)) * 1000,
                  SumSeq(rainfall))

\* demand_mean > 0 and recent_demand > 1.20 * demand_mean
DemandAnomaly(demand) ==
    LET demand_mean == Norm(SumSeq(demand), Len(demand))
        recent_demand == Whole(Last(demand))
    IN  /\ FracLess(Whole(0), demand_mean)
        /\ FracLess(FracMul(Frac(6, 5), demand_mean), recent_demand)

\* direction
Direction(prophet_price, lstm_price) ==
    IF lstm_price >= prophet_price THEN "increase" ELSE "decrease"

\* Insight looking at the shock factor before the anomalies.
InsightShockFirst(insight_parts, shock_factor, prophet_price, lstm_price) ==
    IF shock_factor > 1500
    THEN [kind |-> "significant", direction |-> Direction(prophet_price, lstm_price),
          parts |-> <<>>, shock_factor |-> shock_factor]
    ELSE IF insight_parts # <<>>
    THEN [kind |-> "anomaly", direction |-> Direction(prophet_price, lstm_price),
          parts |-> insight_parts, shock_factor |-> 0]
    ELSE [kind |-> "normal", direction |-> "none", parts |-> <<>>, shock_factor |-> 0]

\* 3. The insight: "Price {direction} driven by {parts}." (anomaly),
\* "Significant short-term price {direction} detected (shock factor ...)."
\* (significant), or "Price is within normal seasonal expectations." (normal).
Insight(insight_parts, shock_factor, prophet_price, lstm_price) ==
    IF insight_parts # <<>>
    THEN [kind |-> "anomaly", direction |-> Direction(prophet_price, lstm_price),
          parts |-> insight_parts, shock_factor |-> 0]
    ELSE IF shock_factor > 1500
    THEN [kind |-> "significant", direction |-> Direction(prophet_price, lstm_price),
          parts |-> <<>>, shock_factor |-> shock_factor]
    ELSE [kind |-> "normal", direction |-> "none", parts |-> <<>>, shock_factor |-> 0]

\* _generate_xai_attribution(prophet_price, lstm_price) on self.data = d
\* (prices in mills, shock_factor and seasonal_contribution in
\* ten-thousandths).
GenerateXaiAttribution(d, prophet_price, lstm_price) ==
    LET shock_factor == ShockFactor(prophet_price, lstm_price)
        low_rain == /\ ~IsNone(d) /\ ~IsNone(Get(d).rainfall)
                    /\ RainfallAnomaly(Get(Get(d).rainfall))
        high_demand == /\ ~IsNone(d) /\ ~IsNone(Get(d).demand)
                       /\ DemandAnomaly(Get(Get(d).demand))
        anomalies == (IF low_rain THEN <<"Low Precipitation">> ELSE <<>>)
                     \o (IF high_demand THEN <<"High Demand Volatility">> ELSE <<>>)
        insight_parts ==
            (IF low_rain
             THEN <<[part |-> "% rainfall deficit",
                     deficit_pct |-> DeficitPct(Get(Get(d).rainfall))]>>
             ELSE <<>>)
            \o (IF high_demand
                THEN <<[part |-> "high demand volatility", deficit_pct |-> 0]>>
                ELSE <<>>)
    IN  [insights |-> Insight(insight_parts, shock_factor, prophet_price, lstm_price),
         shock_factor |-> shock_factor,
         seasonal_contribution |-> SeasonalContribution(shock_factor),
         anomaly_detected |-> IF anomalies # <<>> THEN anomalies ELSE <<"None">>]

\* The columns of the series the predictor holds: rainfall with a most
\* recent value below, at and above 0.80 times the mean 10, with a mean of 0
\* and with a negative mean; demand below, at and above 1.20 times its mean.
RainfallColumns ==
    {None, Some(<<12, 11, 7>>), Some(<<11, 11, 8>>), Some(<<10, 11, 9>>),
     Some(<<0, 0, 0>>), Some(<<-6, -5, -7>>), Some(<<49, 31, 20>>)}

DemandColumns ==
    {None, Some(<<9, 8, 13>>), Some(<<10, 8, 12>>), Some(<<10, 10, 10>>),
     Some(<<0, 0, 0>>)}

DataInputs ==
    {None} \cup {Some(DataFrame(rainfall, demand)) :
                    rainfall \in RainfallColumns, demand \in DemandColumns}

\* The pairs (prophet_price, lstm_price) of sub-model values, in mills.
PricePairs ==
    {<<25000, 25000>>, <<25000, 28750>>, <<25000, 28751>>, <<25000, 28752>>,
     <<25000, 30000>>, <<25000, 21250>>, <<25000, 21000>>, <<0, 5000>>,
     <<1000, 1150>>}

NoXai == [called |-> FALSE, data |-> None, prophet_price |-> 0, lstm_price |-> 0,
          result |-> [insights |-> [kind |-> "none"]]]

\* One call of the explainer, with the arguments and the data of the state.
CallExplainer ==
    /\ ~xai.called
    /\ xai' = [xai EXCEPT !.called = TRUE,
                          !.result = GenerateXaiAttribution(xai.data, xai.prophet_price,
                                                            xai.lstm_price)]

----------------------------------------------------------------------------
(* Specifications *)

Init ==
    HybridStart /\ fa = NoFa /\ FedInit /\ adv = NoAdv /\ app = AppInit /\ fc = NoFc /\ fl = NoFl /\ xai = NoXai

\* The HybridPredictor and the calls made on it.
HybridNext == HybridStep /\ UNCHANGED <<fa, fedVars, adv, app, fc, fl, xai>>

SpecHybrid == Init /\ [][HybridNext]_vars

\* Direct calls of federated_average.
FedAvgInit ==
    /\ HybridStart /\ FedInit /\ adv = NoAdv /\ app = AppInit /\ fc = NoFc /\ fl = NoFl /\ xai = NoXai
    /\ \E local_weights \in FedAvgInputs : fa = [NoFa EXCEPT !.input = local_weights]

FedAvgNext == CallFederatedAverage /\ UNCHANGED <<hybridVars, fedVars, adv, app, fc, fl, xai>>

SpecFedAvg == FedAvgInit /\ [][FedAvgNext]_vars

\* The calls made on one FederatedPricePredictor, one at a time.
FedNext ==
    /\ \/ \E crop_raw \in CropInputs :
             FedCall("run_federated_pipeline", crop_raw, 0, <<>>)
       \/ \E crop_raw \in CropInputs, current_price \in FedPriceInputs,
             location_raw \in LocationInputs :
             FedCall("recommend_best_region", crop_raw, current_price, location_raw)
       \/ FedGenerate
       \/ \E weights \in [1..Len(REGIONS) -> TrainedWeights], fitOk \in BOOLEAN :
             FedTrainLocal(weights, fitOk)
       \/ FedAverage
       \/ FedForecast
       \/ FedReturn
    /\ UNCHANGED <<hybridVars, fa, adv, app, fc, fl, xai>>

SpecFed == Init /\ [][FedNext]_vars

\* Calls of AgronomicAdvisoryLayer.evaluate, one per pair of arguments.
AdvisoryInit ==
    /\ HybridStart /\ fa = NoFa /\ FedInit /\ app = AppInit /\ fc = NoFc /\ fl = NoFl /\ xai = NoXai
    /\ \E crop_id \in CropIdInputs, weather \in WeatherInputs :
          adv = [NoAdv EXCEPT !.crop_id = crop_id, !.weather = weather]

AdvisoryNext == CallEvaluate /\ UNCHANGED <<hybridVars, fa, fedVars, app, fc, fl, xai>>

SpecAdvisory == AdvisoryInit /\ [][AdvisoryNext]_vars

\* The application: its startup and its /predict requests.
AppNext ==
    /\ \/ LifespanEnter
       \/ \E syn \in SyntheticSeries, pFit \in BOOLEAN, kFit \in BOOLEAN :
             Lifespan(syn, pFit, kFit)
       \/ \E sOut \in PredOutcomes, kOut \in PredOutcomes : Analytics(sOut, kOut)
       \/ \E crop_id \in RequestCropIds : PredictIssue(crop_id)
       \/ \E market_data \in MarketQuotes : MarketReturns(market_data)
       \/ \E weather \in WeatherSnapshots : WeatherReturns(weather)
       \/ FetchRaises
       \/ \E sOut \in PredOutcomes, kOut \in PredOutcomes : PredictResume(sOut, kOut)
    /\ UNCHANGED <<fa, fedVars, adv, fc, fl, xai>>

SpecApp == Init /\ [][AppNext]_vars

\* A call of forecast_next_30_days, one loop iteration at a time.
ForecastLoopNext ==
    /\ \/ \E df \in ForecastDataFrames, streams \in [1..Len(REGIONS) -> PredStreams] :
             FlCall(df, streams)
       \/ FlIterate
       \/ FlRegionDone
    /\ UNCHANGED <<hybridVars, fa, fedVars, adv, app, fc, xai>>

SpecForecastLoop == Init /\ [][ForecastLoopNext]_vars

\* Calls of the explainer, one per data and pair of sub-model values.
ExplainerInit ==
    /\ HybridStart /\ fa = NoFa /\ FedInit /\ adv = NoAdv /\ app = AppInit
    /\ fc = NoFc /\ fl = NoFl
    /\ \E d \in DataInputs, pair \in PricePairs :
          xai = [NoXai EXCEPT !.data = d, !.prophet_price = pair[1],
                              !.lstm_price = pair[2]]

ExplainerNext == CallExplainer /\ UNCHANGED <<hybridVars, fa, fedVars, adv, app, fc, fl>>

SpecExplainer == ExplainerInit /\ [][ExplainerNext]_vars

\* Direct calls on one SeasonalityModel and one ShockModel.
ForecasterNext ==
    /\ \/ \E df \in SeriesInputs, fitOk \in BOOLEAN : FcSeasonalityTrain(df, fitOk)
       \/ \E prices \in SeriesInputs, fitOk \in BOOLEAN : FcShockTrain(prices, fitOk)
       \/ \E out \in PredOutcomes : FcSeasonalityPredict(out)
       \/ \E out \in PredOutcomes : FcGetTrendValue(out)
       \/ \E recent \in RecentInputs, out \in PredOutcomes : FcShockPredict(recent, out)
       \/ \E recent \in RecentInputs, out \in PredOutcomes : FcGetCorrection(recent, out)
    /\ UNCHANGED <<fa, fedVars, adv, app, fl, xai>>

SpecForecaster == Init /\ [][ForecasterNext]_vars

Spec == SpecHybrid

----------------------------------------------------------------------------
(* Claims about federated_average, checked under SpecFedAvg *)

\* Every region's weight list has the layer count and the per-layer shapes
\* of the first region's.
SameShapes(local_weights) ==
    \A r \in 1..Len(local_weights) :
        /\ Len(local_weights[r].val) = Len(local_weights[1].val)
        /\ \A l \in 1..Len(local_weights[1].val) :
              Len(local_weights[r].val[l]) = Len(local_weights[1].val[l])

\* C5 (as stated): federated_average on weight lists whose layer counts or
\* per-layer shapes differ between regions fails and returns no averaged
\* weights.
C5_MismatchFails ==
    (fa.called /\ Len(fa.input) >= 1 /\ ~SameShapes(fa.input)) =>
        (fa.error # "none" /\ fa.averaged = <<>>)

\* The sum over all regions of element i of layer l.
RECURSIVE ElementSum(_, _, _, _)
ElementSum(local_weights, l, i, r) ==
    IF r > Len(local_weights) THEN 0
    ELSE local_weights[r].val[l][i] + ElementSum(local_weights, l, i, r + 1)

\* C6: for N >= 1 regions with identically shaped weight lists,
\* federated_average returns a list with the layers and shapes of each input
\* whose every element is the arithmetic mean of that element over all
\* regions; identical weight sets average to that weight set.
C6_ElementwiseMean ==
    (fa.called /\ Len(fa.input) >= 1 /\ SameShapes(fa.input)) =>
        LET n == Len(fa.input)
            first == fa.input[1].val
        IN  /\ fa.error = "none"
            /\ Len(fa.averaged) = Len(first)
            /\ \A l \in 1..Len(first) :
                  /\ Len(fa.averaged[l]) = Len(first[l])
                  /\ \A i \in 1..Len(first[l]) :
                        /\ fa.averaged[l][i].num * n
                              = ElementSum(fa.input, l, i, 1) * fa.averaged[l][i].den
                        /\ (\A r \in 1..n : fa.input[r].val = first) =>
                               fa.averaged[l][i] = Whole(first[l][i])

\* C6 happens: the weights [2.0] and [4.0] of two regions averaged to [3.0].
C6_Witness ==
    /\ fa.called
    /\ fa.input = <<Item(Str_Kottayam, <<<<2>>>>), Item(Str_Idukki, <<<<4>>>>)>>
    /\ fa.averaged = <<<<Whole(3)>>>>

----------------------------------------------------------------------------
(* Claims about recommend_best_region and run_federated_pipeline, checked
   under SpecFed *)

Recommended ==
    /\ fed_pc = "Done"
    /\ fed_result.op = "recommend_best_region"
    /\ fed_result.outcome = "ok"

\* C7 (as stated): the caller's own region is reported as optimal whenever
\* its 7-day average attains the maximum over all regions, ties included,
\* and switching is recommended only when it does not attain the maximum.
C7_OwnRegionOptimalOnMax ==
    Recommended =>
        LET avg == fed_result.all_region_averages
            own == DictGet(avg, fed_result.current_location)
            ownIsMax == \A j \in 1..Len(avg) : avg[j].val <= own
        IN  /\ ownIsMax =>
                 /\ fed_result.best_region = fed_result.current_location
                 /\ fed_result.recommendation
                      = "Current location is optimal for selling"
            /\ fed_result.recommendation
                 = "Sell in best_region for higher expected returns" => ~ownIsMax

\* The sum of the first 7 forecast steps of the r-th region (cents).
Week(r) ==
    LET f == fed_result.regions[r].val
    IN  f[1] + f[2] + f[3] + f[4] + f[5] + f[6] + f[7]

RegionIndex(name) == CHOOSE r \in 1..Len(REGIONS) : REGIONS[r] = name

\* C8 (as stated): best_region is a region whose mean over the first 7
\* forecast steps is maximal among all regions, the expected average is that
\* mean and price_difference is that mean minus the current price, each to
\* the 2 decimals of the output.
C8_BestIsMaximalMean ==
    Recommended =>
        LET best == RegionIndex(fed_result.best_region)
        IN  /\ \A r \in 1..Len(REGIONS) : Week(r) <= Week(best)
            /\ 2 * Abs(fed_result.expected_avg * 7 - Week(best)) <= 7
            /\ Abs(fed_result.price_difference * 10
                   - (fed_result.expected_avg * 10 - fed_result.current_price)) <= 5

\* C8 (amended): every reported region average is the mean of the region's
\* first 7 forecast steps rounded to 2 decimals; best_region is a region
\* whose rounded average is maximal, the expected average is that rounded
\* average, and price_difference is it minus the current price, rounded to 2
\* decimals.
C8_BestIsMaximalRoundedMean ==
    Recommended =>
        LET avg == fed_result.all_region_averages
            best == RegionIndex(fed_result.best_region)
        IN  /\ Len(avg) = Len(REGIONS)
            /\ \A r \in 1..Len(REGIONS) :
                  /\ avg[r].key = REGIONS[r]
                  /\ 2 * Abs(avg[r].val * 7 - Week(r)) <= 7
                  /\ avg[r].val <= avg[best].val
            /\ fed_result.expected_avg = avg[best].val
            /\ Abs(fed_result.price_difference * 10
                   - (fed_result.expected_avg * 10 - fed_result.current_price)) <= 5

\* C8 happens: averages {Kottayam: 100, Idukki: 120, Ernakulam: 90} and the
\* current region Kottayam give Idukki with price_difference = 120 - 95.
C8_Witness ==
    /\ Recommended
    /\ fed_result.current_location = Str_Kottayam
    /\ fed_result.current_price = 95000
    /\ fed_result.all_region_averages
         = <<Item(Str_Kottayam, 10000), Item(Str_Idukki, 12000),
             Item(Str_Ernakulam, 9000)>>
    /\ fed_result.best_region = Str_Idukki
    /\ fed_result.price_difference = 2500

\* The regions whose reported 7-day average is the maximum.
TiedRegions ==
    {r \in 1..Len(REGIONS) :
        \A j \in 1..Len(REGIONS) :
            fed_result.all_region_averages[j].val
                <= fed_result.all_region_averages[r].val}

\* C24: when several regions tie for the maximum 7-day average,
\* recommend_best_region selects the first of them in the order of REGIONS
\* (Kottayam, Idukki, Ernakulam); best_region is determined by the
\* per-region averages alone.
C24_TieFirstInRegionsOrder ==
    Recommended =>
        /\ \A r \in 1..Len(REGIONS) :
              fed_result.all_region_averages[r].key = REGIONS[r]
        /\ RegionIndex(fed_result.best_region) \in TiedRegions
        /\ \A r \in TiedRegions : RegionIndex(fed_result.best_region) <= r

\* C24 happens: Idukki and Ernakulam tie above Kottayam, the caller sells in
\* Ernakulam, and Idukki is selected.
C24_Witness ==
    /\ Recommended
    /\ TiedRegions = {2, 3}
    /\ fed_result.current_location = Str_Ernakulam
    /\ fed_result.best_region = Str_Idukki

\* The arguments that name a supported crop, and a known region, once
\* trimmed and case-normalised.
SupportedCropInputs == {<<"t", "e", "a">>, <<" ", "M", "a", "n", "g", "o", "\n">>}

KnownRegionInputs == {<<"K", "o", "t", "t", "a", "y", "a", "m">>, <<" ", "i", "d", "u", "k", "k", "i">>, <<"E", "R", "N", "A", "K", "U", "L", "A", "M", " ">>}

\* C9: a call of run_federated_pipeline with an unsupported crop, or of
\* recommend_best_region with an unsupported crop or an unknown region, is
\* rejected with a validation error before any pipeline stage has started.
C9_InvalidRejectedBeforeWork ==
    (/\ fed_call.op # "none"
     /\ \/ fed_call.crop_raw \notin SupportedCropInputs
        \/ /\ fed_call.op = "recommend_best_region"
           /\ fed_call.location_raw \notin KnownRegionInputs) =>
        /\ fed_pc = "Rejected"
        /\ fed_result.outcome \in {"UnsupportedCrop", "UnknownRegion"}
        /\ fed_log = <<>>
        /\ fed_run = NoRun

\* C9 happens: recommend_best_region was rejected for its region, after an
\* earlier call had run the pipeline.
C9_Witness ==
    /\ fed_pc = "Rejected"
    /\ fed_call.op = "recommend_best_region"
    /\ fed_call.crop_raw \in SupportedCropInputs
    /\ fed_result.outcome = "UnknownRegion"
    /\ rng_draws > 0

----------------------------------------------------------------------------
(* Claims about get_analytics, checked under SpecHybrid *)

\* C13 (as stated): shock_alert is true if and only if the reported deviation
\* percent is greater than 15.0, the reported deviation percent being
\* |shock - seasonal| / |seasonal| * 100 (0 when seasonal is 0) to 2 decimals.
C13_ShockAlertIffReportedAbove15 ==
    Returned({"get_analytics"}) =>
        LET s == result.prophet_trend
            k == result.lstm_correction
        IN  /\ result.shock_alert <=> result.deviation_percent > 1500
            /\ s = 0 => result.deviation_percent = 0
            /\ s # 0 =>
                 2 * Abs(result.deviation_percent * Abs(s) - Abs(k - s) * 10000)
                     <= Abs(s)

\* C13 (amended): shock_alert is true if and only if the unrounded deviation
\* |shock - seasonal| / |seasonal| * 100 (0 when seasonal is 0) is greater
\* than 15; a deviation of exactly 15 gives false. The reported deviation
\* percent is that deviation rounded to 2 decimals, so it is at least 15.0
\* whenever shock_alert is true and at most 15.0 whenever it is false.
C13_ShockAlertIffDeviationAbove15 ==
    Returned({"get_analytics"}) =>
        LET s == result.prophet_trend
            k == result.lstm_correction
        IN  /\ s = 0 => ~result.shock_alert /\ result.deviation_percent = 0
            /\ s # 0 =>
                 /\ result.shock_alert <=> Abs(k - s) * 100 > 15 * Abs(s)
                 /\ 2 * Abs(result.deviation_percent * Abs(s) - Abs(k - s) * 10000)
                      <= Abs(s)
            /\ result.shock_alert => result.deviation_percent >= 1500
            /\ ~result.shock_alert => result.deviation_percent <= 1500

\* C13 happens: seasonal 1.000 and shock 1.150 deviate by exactly 15 % and
\* get_analytics returned shock_alert = false.
C13_Witness ==
    /\ Returned({"get_analytics"})
    /\ result.prophet_trend = 1000
    /\ result.lstm_correction = 1150
    /\ result.deviation_percent = 1500
    /\ ~result.shock_alert

\* C14: the confidence score of get_analytics is 100 minus the deviation
\* percent clamped into [0, 100]: never below 0 or above 100, and 0 for a
\* deviation of 100 or more.
C14_ConfidenceClamped ==
    Returned({"get_analytics"}) =>
        LET s == result.prophet_trend
            k == result.lstm_correction
            c == result.confidence_score
        IN  /\ 0 <= c /\ c <= 10000
            /\ (s # 0 /\ Abs(k - s) >= Abs(s)) => c = 0
            /\ (s = 0 \/ k = s) => c = 10000
            /\ (s # 0 /\ Abs(k - s) < Abs(s)) =>
                 2 * Abs((10000 - c) * Abs(s) - Abs(k - s) * 10000) <= Abs(s)
            /\ result.deviation_percent <= 10000 => c = 10000 - result.deviation_percent
            /\ result.deviation_percent >= 10000 => c = 0

\* C14 happens: seasonal 1.000 and shock 3.500 deviate by 250 % and the
\* confidence score is 0.
C14_Witness ==
    /\ Returned({"get_analytics"})
    /\ result.prophet_trend = 1000
    /\ result.lstm_correction = 3500
    /\ result.deviation_percent = 25000
    /\ result.confidence_score = 0

\* C15: in the attribution that get_prediction and predict_hybrid return,
\* shock_factor is
\* |shock - seasonal| / |seasonal| rounded to 4 decimals (0 when seasonal is
\* 0), hence 0 whenever seasonal equals shock, and seasonal_contribution is
\* 1 - shock_factor.
C15_ShockFactor ==
    Returned({"get_prediction", "predict_hybrid"}) =>
        LET s == result.prophet_trend
            k == result.lstm_correction
        IN  /\ s = 0 => result.shock_factor = 0
            /\ k = s => result.shock_factor = 0
            /\ s # 0 =>
                 2 * Abs(result.shock_factor * Abs(s) - Abs(k - s) * 10000) <= Abs(s)
            /\ result.seasonal_contribution = 10000 - result.shock_factor

\* C15 happens: seasonal 1.004 and shock 1.008 give shock_factor 0.0040 and
\* seasonal_contribution 0.9960.
C15_Witness ==
    /\ Returned({"get_prediction"})
    /\ result.prophet_trend = 1004
    /\ result.lstm_correction = 1008
    /\ result.shock_factor = 40
    /\ result.seasonal_contribution = 9960

----------------------------------------------------------------------------
(* Claims about AgronomicAdvisoryLayer.evaluate, checked under SpecAdvisory *)

\* The keys of the rule table.
RuleKeys == {CROP_KNOWLEDGE[i].key : i \in 1..Len(CROP_KNOWLEDGE)}

\* C10: for a crop id that normalises (trim, lower case, underscores to
\* spaces) to a key absent from the rule table, and any weather snapshot,
\* evaluate returns without raising the neutral result: triggered = false,
\* bias = 1.0 and a message naming the crop as it was given.
C10_UnknownCropNeutral ==
    (/\ adv.called
     /\ StrUnderscoreToSpace(StrLower(StrStrip(adv.crop_id))) \notin RuleKeys) =>
        /\ adv.result.outcome = "ok"
        /\ adv.result.triggered = FALSE
        /\ adv.result.biological_risk_alert = FALSE
        /\ adv.result.bias = 100
        /\ adv.result.insight.crop = adv.crop_id
        /\ adv.result.insight.prefix = "No agronomic rules defined for '"

\* C10 happens: evaluate was called for the crop "wheat" under a reading that
\* triggers rules of the table, and returned the neutral result.
C10_Witness ==
    /\ adv.called
    /\ adv.crop_id = <<"w", "h", "e", "a", "t">>
    /\ adv.weather = Snapshot(851, {})
    /\ adv.result.triggered = FALSE
    /\ adv.result.bias = 100

\* The table's rule under a key.
RuleOfKey(key) ==
    CROP_KNOWLEDGE[CHOOSE i \in 1..Len(CROP_KNOWLEDGE) : CROP_KNOWLEDGE[i].key = key].val

NormalisedKey(crop_id) == StrUnderscoreToSpace(StrLower(StrStrip(crop_id)))

\* C11: for every crop of the rule table and every weather snapshot,
\* evaluate reads the rule's metric from the snapshot (0 when it is missing)
\* and returns triggered = true exactly when the rule's comparison of that
\* reading with the threshold holds; when triggered the bias is the rule's
\* multiplier and the insight its impact text, otherwise the bias is 1.0; the
\* rule description and the reading are returned in both cases.
C11_RuleEvaluation ==
    (adv.called /\ adv.crop_id \in RuleKeys) =>
        LET rule == RuleOfKey(adv.crop_id)
            reading == IF rule.metric \in DOMAIN adv.weather
                       THEN adv.weather[rule.metric] ELSE 0
            holds == \/ rule.op = ">" /\ reading > rule.val
                     \/ rule.op = "<" /\ reading < rule.val
                     \/ rule.op = ">=" /\ reading >= rule.val
                     \/ rule.op = "<=" /\ reading <= rule.val
            res == adv.result
        IN  /\ res.outcome = "ok"
            /\ res.triggered = holds
            /\ res.biological_risk_alert = holds
            /\ holds => /\ res.bias = rule.bias
                        /\ res.insight.prefix = rule.impact
            /\ ~holds => res.bias = 100
            /\ res.rule_used = <<rule.metric, rule.op, rule.val>>
            /\ res.metric_value = <<reading>>

\* C11 happens: evaluate was called for "rubber" with precip 0.2 (above the
\* threshold 0.1) and returned the rule's multiplier 1.05.
C11_Witness ==
    /\ adv.called
    /\ adv.crop_id = <<"r", "u", "b", "b", "e", "r">>
    /\ adv.weather = Snapshot(2, {})
    /\ adv.result.triggered
    /\ adv.result.bias = 105
    /\ adv.result.metric_value = <<2>>

\* Pairs of keys of the rule table that name one crop.
AliasKeys ==
    {<<<<"p", "e", "p", "p", "e", "r">>, <<"b", "l", "a", "c", "k", " ", "p", "e", "p", "p", "e", "r">>>>,
     <<<<"p", "a", "d", "d", "y">>, <<"r", "i", "c", "e">>>>,
     <<<<"b", "a", "n", "a", "n", "a">>, <<"b", "a", "n", "a", "n", "a", " ", "n", "e", "n", "d", "r", "a", "n">>>>}

\* C12: two crop ids that are equal after trim, lower-casing and
\* underscore-to-space replacement resolve to the same rule and, for the same
\* weather, evaluate gives both the same triggered flag, bias and rule_used;
\* alias keys of one crop give the same triggered flag and bias.
C12_LookupNormalised ==
    adv.called =>
        /\ \A other \in CropIdInputs :
              NormalisedKey(other) = NormalisedKey(adv.crop_id) =>
                  LET res == evaluate(other, adv.weather)
                  IN  /\ LookupRule(other) = LookupRule(adv.crop_id)
                      /\ res.triggered = adv.result.triggered
                      /\ res.bias = adv.result.bias
                      /\ res.rule_used = adv.result.rule_used
        /\ \A pair \in AliasKeys :
              NormalisedKey(adv.crop_id) = pair[1] =>
                  LET res == evaluate(pair[2], adv.weather)
                  IN  /\ res.triggered = adv.result.triggered
                      /\ res.bias = adv.result.bias

\* C12 happens: "BLACK_PEPPER" was evaluated under humidity 85.1 and
\* triggered the rule of "black pepper" (humidity > 85, multiplier 1.08).
C12_Witness ==
    /\ adv.called
    /\ adv.crop_id = <<"B", "L", "A", "C", "K", "_", "P", "E", "P", "P", "E", "R">>
    /\ adv.weather = Snapshot(851, {})
    /\ adv.result.triggered
    /\ adv.result.bias = 108
    /\ adv.result.rule_used = <<"humidity", ">", 850>>

----------------------------------------------------------------------------
(* Claims about the /predict handler, checked under SpecApp *)

\* C16: when the live market quote has record_count = 0 the handler returns
\* the no-data result (error flag, message naming the crop, the weather
\* snapshot) without raising, and neither the advisory evaluation, nor the
\* fusion, nor the signing is executed for that request, whether or not the
\* predictor is trained.
C16_NoDataResult ==
    (app.pc = "Responded" /\ Get(app.market).record_count = 0) =>
        /\ app.response.kind = "no_data"
        /\ app.response.error
        /\ app.response.message.crop = StrTitle(StrStrip(app.crop_id))
        /\ app.response.weather_snapshot = Get(app.weather)
        /\ \A i \in 1..Len(app.log) :
              app.log[i] \notin {"advisor.evaluate", "predictor.predict_hybrid",
                                 "signer.sign"}

\* C16 happens: a request for "Tapioca " got the empty quote while the
\* predictor was trained, and the no-data result was returned.
C16_Witness ==
    /\ app.pc = "Responded"
    /\ hp_trained
    /\ app.crop_id = <<"T", "a", "p", "i", "o", "c", "a", " ">>
    /\ Get(app.market).record_count = 0
    /\ app.response.kind = "no_data"

\* C16 happens on an untrained predictor as well.
C16_WitnessUntrained ==
    /\ app.pc = "Responded"
    /\ ~hp_trained
    /\ Get(app.market).record_count = 0
    /\ app.response.kind = "no_data"

\* C30 (as stated): when the weather snapshot lacks the rule's metric, or is
\* the all-zero snapshot WeatherClient.fetch returns when its request fails,
\* evaluate returns the neutral result (triggered = false, bias = 1.0) for
\* every crop of the rule table.
C30_UnavailableWeatherNeutral ==
    (/\ adv.called
     /\ NormalisedKey(adv.crop_id) \in RuleKeys
     /\ \/ RuleOfKey(NormalisedKey(adv.crop_id)).metric \notin DOMAIN adv.weather
        \/ adv.weather = Snapshot(0, {})) =>
        /\ adv.result.triggered = FALSE
        /\ adv.result.biological_risk_alert = FALSE
        /\ adv.result.bias = 100

----------------------------------------------------------------------------
(* Claims about the forecasters, checked under SpecForecaster *)

\* C17 (as stated): a forecaster on which no train call has completed never
\* returns a value from predict, get_trend_value or get_correction, each
\* raises the not-trained error, also after a train call that failed
\* part-way; a forecaster that has completed training always returns a value
\* from get_trend_value and get_correction.
C17_UntrainedNeverPredicts ==
    /\ (/\ fc.op \in {"SeasonalityModel.predict", "SeasonalityModel.get_trend_value"}
        /\ ~fc.seasonal_completed) => (fc.raised /\ fc.exc = "RuntimeError")
    /\ (/\ fc.op \in {"ShockModel.predict", "ShockModel.get_correction"}
        /\ ~fc.shock_completed) => (fc.raised /\ fc.exc = "RuntimeError")
    /\ (fc.op = "SeasonalityModel.get_trend_value" /\ fc.seasonal_completed) => ~fc.raised
    /\ (fc.op = "ShockModel.get_correction" /\ fc.shock_completed) => ~fc.raised

\* C18 (as stated): for every non-empty price series, also one no longer
\* than the shock model's window, SeasonalityModel.train and ShockModel.train
\* complete when the library's fit returns, leave the forecaster trained and
\* set its last-known value to the last price of the series.
C18_TrainFailsOnlyOnEmpty ==
    /\ (fc.op = "SeasonalityModel.train" /\ fc.series # <<>> /\ fc.fit_ok) =>
          /\ ~fc.raised
          /\ seasonality.trained
          /\ seasonality.last_known_price = <<Last(fc.series)>>
    /\ (fc.op = "ShockModel.train" /\ fc.series # <<>> /\ fc.fit_ok) =>
          /\ ~fc.raised
          /\ shock.trained
          /\ shock.last_known_price = <<Last(fc.series)>>

----------------------------------------------------------------------------
(* Claims about the runs of the pipeline, checked under SpecFed *)

\* C19 (as stated): two runs of run_federated_pipeline for the same crop on
\* one FederatedPricePredictor synthesize the same regional price series.
C19_SameSeriesEachRun ==
    \A i \in 1..Len(fed_generated), j \in 1..Len(fed_generated) :
        fed_generated[i].crop = fed_generated[j].crop =>
            \A region \in 1..Len(REGIONS) :
                RecentRegionPrices(fed_generated[i], region, DAYS)
                    = RecentRegionPrices(fed_generated[j], region, DAYS)

\* The stages of a run, in order.
Stages == <<"DataGenerated", "LocallyTrained", "Averaged", "Forecasted", "Done">>

IsPrefix(s, t) == Len(s) <= Len(t) /\ \A i \in 1..Len(s) : s[i] = t[i]

\* C20: every run of the pipeline enters the stages data generation, local
\* training, averaging, forecasting and done in that order, each once and
\* none skipped; a run that fails in a stage enters no later stage and hands
\* back no result.
C20_StagesInOrder ==
    [][/\ IsPrefix(fed_log', Stages)
       /\ fed_log' # fed_log =>
             \/ fed_log' = <<>>
             \/ Len(fed_log) < Len(Stages) /\ fed_log' = Append(fed_log, Stages[Len(fed_log) + 1])
       /\ fed_pc' = "Done" =>
             /\ fed_log' = Stages
             /\ fed_result'.outcome = "ok"
             /\ Len(fed_result'.regions) = Len(REGIONS)
       /\ fed_pc' = "Failed" =>
             /\ Len(fed_log') < Len(Stages) - 1
             /\ fed_result'.outcome # "ok"
             /\ fed_result'.regions = <<>>
             /\ fed_run' = NoRun
       /\ (fed_pc = "Failed" /\ fed_log' # <<>>) => fed_log' = fed_log
       /\ fed_pc' \in {"DataGenerated", "LocallyTrained", "Averaged", "Forecasted"} =>
             (fed_log' # <<>> /\ fed_log'[Len(fed_log')] = fed_pc')
      ]_vars

\* C20 happens: a run has gone through all five stages and returned.
C20_Witness ==
    /\ fed_pc = "Done"
    /\ fed_call.op = "run_federated_pipeline"
    /\ fed_log = Stages
    /\ fed_result.outcome = "ok"

\* C20 happens for a failing run: local training raised after the data were
\* generated, and no later stage was entered.
C20_WitnessFailed ==
    /\ fed_pc = "Failed"
    /\ fed_log = <<"DataGenerated">>
    /\ fed_result.outcome = "train_local_models"

\* C21: in a pipeline run federated_average starts only after local training
\* has completed for every region of REGIONS, and the weights it returns are
\* the mean of exactly one weight list per region: every region is in the
\* average once.
C21_AverageAfterAllRegions ==
    [][(fed_pc' = "Averaged" /\ fed_pc # "Averaged") =>
          /\ fed_pc = "LocallyTrained"
          /\ ~IsNone(fed_run.local_weights)
          /\ LET local_weights == Get(fed_run.local_weights)
                 averaged == Get(fed_run'.global_weights)
             IN  /\ Len(local_weights) = Len(REGIONS)
                 /\ \A r \in 1..Len(REGIONS) : local_weights[r].key = REGIONS[r]
                 /\ Len(averaged) = Len(local_weights[1].val)
                 /\ \A l \in 1..Len(averaged) :
                       \A i \in 1..Len(averaged[l]) :
                          averaged[l][i].num * Len(REGIONS)
                             = ElementSum(local_weights, l, i, 1) * averaged[l][i].den
      ]_vars

\* C21 happens: the three regions were trained to different weights and the
\* average of the three lists has been taken.
C21_Witness ==
    /\ fed_pc = "Averaged"
    /\ ~IsNone(fed_run.global_weights)
    /\ Len(Get(fed_run.local_weights)) = Len(REGIONS)
    /\ Get(fed_run.local_weights)[1].val # Get(fed_run.local_weights)[2].val

----------------------------------------------------------------------------
(* Claims about the application, checked under SpecApp *)

\* A step in which a handler calls a prediction method of the predictor.
PredictionStep ==
    \/ \E sOut \in PredOutcomes, kOut \in PredOutcomes : PredictResume(sOut, kOut)
    \/ \E sOut \in PredOutcomes, kOut \in PredOutcomes : Analytics(sOut, kOut)

\* C22: no prediction on the shared predictor executes while a training pass
\* on it is in progress, and at most one training pass runs at a time, in
\* every interleaving of the startup and the request handlers: a prediction
\* step starts and ends with no training in progress, the predictor's
\* trained state changes only in the step that ends the one training pass,
\* and no second pass starts.
C22_NoPredictionDuringTraining ==
    [][/\ PredictionStep => (~app.training /\ ~app'.training)
       /\ <<data, hp_trained, seasonality, shock>>' # <<data, hp_trained, seasonality, shock>>
             => (app.training /\ ~app'.training)
       /\ (app'.training /\ ~app.training) => (app.trainings = 0 /\ app'.trainings = 1)
       /\ app'.trainings <= 1
      ]_vars

\* C22 happens: the training pass of the startup is over and both handlers
\* have had their prediction from the trained predictor.
C22_Witness ==
    /\ app.started /\ ~app.training /\ app.trainings = 1
    /\ hp_trained
    /\ app.pc = "Responded" /\ app.response.kind = "prediction"
    /\ app.analytics_response.kind = "analytics"

\* The positions of an entry in the call log of a request.
Positions(log, entry) == {i \in 1..Len(log) : log[i] = entry}

\* C23: in the predict handler the market fetch and the weather fetch are
\* both issued before either result is awaited, and the advisory evaluation,
\* and the fusion that uses its bias, begin only after both results have
\* been received.
C23_FetchesIssuedThenBothAwaited ==
    app.log # <<>> =>
        /\ Len(app.log) >= 2
        /\ Positions(app.log, "live_informer.fetch") = {1}
        /\ Positions(app.log, "weather_client.fetch") = {2}
        /\ \A i \in Positions(app.log, "advisor.evaluate")
                    \cup Positions(app.log, "predictor.predict_hybrid") :
              /\ \E j \in Positions(app.log, "market_data") : j < i
              /\ \E k \in Positions(app.log, "weather") : k < i
        /\ \A i \in Positions(app.log, "predictor.predict_hybrid") :
              \E j \in Positions(app.log, "advisor.evaluate") : j < i
        /\ IsNone(app.market) <=> Positions(app.log, "market_data") = {}
        /\ IsNone(app.weather) <=> Positions(app.log, "weather") = {}

\* C23 happens: both fetches were issued, the weather came back before the
\* market data, and the evaluation and the fusion followed the two results.
C23_Witness ==
    /\ app.pc = "Responded"
    /\ app.response.kind = "prediction"
    /\ app.log = <<"live_informer.fetch", "weather_client.fetch", "weather",
                   "market_data", "advisor.evaluate", "predictor.predict_hybrid",
                   "signer.sign">>

----------------------------------------------------------------------------
(* Claims about the loop of forecast_next_30_days, checked under
   SpecForecastLoop *)

\* C25: for every region the buffer is seeded with the region's last WINDOW
\* prices; after k iterations the buffer holds WINDOW + k values, the seed
\* followed by the k values predicted, and k predictions have been emitted;
\* the input of each iteration is the last WINDOW values the buffer held;
\* the loop ends after FORECAST_HORIZON iterations, and every region gets a
\* forecast of FORECAST_HORIZON values.
C25_ForecastLoop ==
    /\ fl.pc # "Idle" =>
          LET seed == [i \in 1..WINDOW |->
                         10 * RecentRegionPrices(Get(fl.df), fl.region, WINDOW)[i]]
              stream == fl.streams[fl.region]
          IN  /\ fl.region \in 1..Len(REGIONS)
              /\ fl.k \in 0..FORECAST_HORIZON
              /\ Len(fl.window_buf) = WINDOW + fl.k
              /\ Len(fl.preds) = fl.k
              /\ SubSeq(fl.window_buf, 1, WINDOW) = seed
              /\ \A j \in 1..fl.k :
                    /\ fl.window_buf[WINDOW + j] = stream[j]
                    /\ fl.preds[j] = RoundHalfEven(stream[j], 10)
              /\ fl.k >= 1 =>
                    /\ Len(fl.x_input) = WINDOW
                    /\ fl.x_input = SubSeq(fl.window_buf, fl.k, WINDOW + fl.k - 1)
              /\ Len(fl.results) \in {fl.region - 1, fl.region}
              /\ \A r \in 1..Len(fl.results) :
                    /\ fl.results[r].key = REGIONS[r]
                    /\ Len(fl.results[r].val) = FORECAST_HORIZON
    /\ fl.pc = "Done" =>
          /\ fl.k = FORECAST_HORIZON
          /\ Len(fl.results) = Len(REGIONS)
          /\ fl.results = ForecastNext30Days(SeedWindows(Get(fl.df)), fl.streams)

\* C25 happens: in the second region, after 3 iterations, the third input
\* was made of the last 28 seed values and the 2 values predicted before.
C25_Witness ==
    /\ fl.pc = "Looping"
    /\ fl.region = 2
    /\ fl.k = 3
    /\ fl.x_input[WINDOW - 1] = fl.streams[2][1]
    /\ fl.x_input[WINDOW] = fl.streams[2][2]
    /\ fl.streams[2][1] # fl.streams[2][2]
    /\ Len(fl.results) = 1

----------------------------------------------------------------------------
(* Claims about the explainer, checked under SpecExplainer *)

\* Whether the label is among the anomalies the call reported.
Labelled(label) ==
    \E i \in 1..Len(xai.result.anomaly_detected) :
        xai.result.anomaly_detected[i] = label

\* C26: each call of the explainer produces exactly one insight, chosen by
\* priority: the anomaly sentence if any anomaly label fired, with direction
\* "increase" when shock >= seasonal and "decrease" otherwise; else the
\* significant short-term price change sentence if shock_factor > 0.15; else
\* the sentence of normal seasonal expectations.
C26_OneInsightByPriority ==
    xai.called =>
        LET fired == Labelled("Low Precipitation") \/ Labelled("High Demand Volatility")
            insight == xai.result.insights
        IN  /\ insight.kind \in {"anomaly", "significant", "normal"}
            /\ fired =>
                  /\ insight.kind = "anomaly"
                  /\ insight.parts # <<>>
                  /\ xai.lstm_price >= xai.prophet_price => insight.direction = "increase"
                  /\ xai.lstm_price < xai.prophet_price => insight.direction = "decrease"
            /\ (~fired /\ xai.result.shock_factor > 1500) => insight.kind = "significant"
            /\ (~fired /\ xai.result.shock_factor <= 1500) => insight.kind = "normal"

\* C26 happens: a rainfall deficit and a shock factor of 0.2 together give
\* the anomaly sentence.
C26_Witness ==
    /\ xai.called
    /\ Labelled("Low Precipitation")
    /\ xai.result.shock_factor = 2000
    /\ xai.result.insights.kind = "anomaly"
    /\ xai.result.insights.direction = "increase"

\* C27: with a rainfall column, the label Low Precipitation is produced if
\* and only if the mean rainfall is greater than 0 and the most recent value
\* is strictly less than 0.80 times the mean (a value of exactly 0.80 times
\* the mean does not fire); without a rainfall column the call returns with
\* no such label.
C27_LowPrecipitationIff ==
    xai.called =>
        /\ xai.result.insights.kind # "none"
        /\ (IsNone(xai.data) \/ IsNone(Get(xai.data).rainfall)) =>
              ~Labelled("Low Precipitation")
        /\ (~IsNone(xai.data) /\ ~IsNone(Get(xai.data).rainfall)) =>
              LET rainfall == Get(Get(xai.data).rainfall)
                  n == Len(rainfall)
                  total == SumSeq(rainfall)
              IN  Labelled("Low Precipitation")
                    <=> (total > 0 /\ 5 * n * rainfall[n] < 4 * total)

\* C27 happens: the most recent rainfall, 8, is 0.80 times the mean, 10, and
\* the call returned without the label.
C27_Witness ==
    /\ xai.called
    /\ ~IsNone(xai.data)
    /\ Get(xai.data).rainfall = Some(<<11, 11, 8>>)
    /\ ~Labelled("Low Precipitation")

\* C28 (as stated): for one pair of sub-model values and no rainfall or
\* demand anomaly, the explainer selects the significant short-term price
\* change insight exactly when get_analytics reports shock_alert = true for
\* that pair.
C28_ExplainerAgreesWithAlert ==
    (/\ xai.called
     /\ ~Labelled("Low Precipitation") /\ ~Labelled("High Demand Volatility")) =>
        (xai.result.insights.kind = "significant"
            <=> ShockAlert(DeviationPct(xai.prophet_price, xai.lstm_price)))

----------------------------------------------------------------------------
(* Claims about HybridPredictor.train, checked under SpecHybrid *)

\* C29 (as stated): after any sequence of train calls, whenever the engine
\* reports itself trained, the series held in data is the one on which both
\* sub-models were last successfully trained: a train call that returns
\* leaves the engine trained with data the series given and both sub-models
\* trained on it, and a train call that raises leaves data, the trained flag
\* and both sub-models' last_known_price unchanged.
C29_TrainAllOrNothing ==
    [][result'.op = "train" =>
          /\ result'.outcome = "ok" =>
                /\ hp_trained' /\ seasonality'.trained /\ shock'.trained
                /\ ~IsNone(data') /\ Get(data') # <<>>
                /\ shock'.last_known_price = Some(Last(Get(data')))
          /\ result'.outcome # "ok" =>
                /\ data' = data
                /\ hp_trained' = hp_trained
                /\ seasonality'.last_known_price = seasonality.last_known_price
                /\ shock'.last_known_price = shock.last_known_price
      ]_vars

====
